---- MODULE Spec2Model ----
(***************************************************************************)
(* Streaming multi-batch training session of the outlier orchestrator:     *)
(* OrchestratorService.startTrainingSession / sendTrainingBatch /          *)
(* finishTraining / postWithRetry (services/orchestrator.service) and the  *)
(* OrchestratorController.train glue that drives them.                     *)
(*                                                                         *)
(* Every `await` of the JavaScript source is a suspension point: the code  *)
(* between two awaits is one atomic action, and any other pending          *)
(* continuation may run in between.                                        *)
(***************************************************************************)
EXTENDS Integers, Sequences, FiniteSets, TLC

\* ------------------------------------------------------------------ bounds
MaxOps == 3          \* service calls begun by all callers together
MaxReqs == 2         \* POST /train requests begun by all clients together
MaxBatchLen == 2     \* raw discharges per batch
MaxFail == 2         \* axios calls that fail, over all nodes
MaxRaw == 2          \* raw discharges of the call followed object by object
MaxSignals == 2      \* signals of one discharge
MaxResponses == 3    \* entries of the list handed to applyVoting
MaxDischarges == 2   \* discharges of a prediction request
MaxChecks == 2       \* healthCheck calls
MaxRecords == 3      \* training summaries handed in
MaxUploads == 2      \* uploads to an automated-predict session
MaxWindows == 2      \* windows in a node's answer
MaxFinalizes == 2    \* finalize requests to an automated-predict session
MaxFiles == 2        \* files of one call of the parser
MaxTasks == 3        \* discharges chained on one node's queue
MaxTries == 2        \* axios calls of one task

\* ------------------------------------------------------------ value spaces
Nodes == {"a", "b"}                 \* keys of this.models
NodeOrder == <<"a", "b">>           \* Object.keys() order of this.models
Clients == {"c1", "c2"}             \* concurrent callers of the service
Ids == {"d1", "d2"}                 \* discharge ids a caller may submit
CtlIds == {"d1"}                    \* discharge ids in a POST /train body
Sessions == 1..MaxOps               \* identities of session objects
Outcomes == {"ok", "neterr", "http", "timeout"}   \* result of one axios call
Undefined == -1                     \* a property that was never assigned

Urls == {"u1", "u2"}               \* training URLs of a node
NoUrl == "none"                     \* the key is not in config.models

BatchLens == 0..MaxBatchLen          \* rawDischarges.length of a call
Totals == {Undefined, 2}            \* totalDischarges of a request body

VARIABLES
  models,           \* this.models: the enabled node keys
  trainingSession,  \* this.trainingSession: 0 is null, else a session object
  created,          \* number of session objects constructed so far
  sent,             \* trainingSession.sent, per session object
  totalDischarges,  \* trainingSession.totalDischarges
  autoFinish,       \* trainingSession.autoFinish (written by the controller)
  sessModels,       \* keys of trainingSession.models
  sessUrl,          \* trainingSession.models[n].trainingUrl
  queue,            \* per session and node: callbacks chained on model.queue
  chain,            \* per session and node: "ok" or "rejected" promise chain
  req,              \* per session and node: ordinal of the POST being retried
  last,             \* per session and node: outcome of the latest attempt
  acked,            \* per session and node: POSTs the node answered, in order
  targets,          \* per session and node: URLs its discharges were posted to
  startAcks,        \* per node: session-start POSTs the node answered
  ordLog,           \* per session: accepted discharges in order of acceptance
  cl,               \* per client: position and locals of its current call
  ops,              \* operations begun so far
  fails,            \* axios calls that have failed so far
  rawD,             \* the rawDischarges objects a caller submitted
  memIdx,           \* raw discharges the loop of sendTrainingBatch has read
  clones,           \* per node: the structuredClone of every chained task
  memDone,          \* per node: tasks whose .finally() has run
  memChain,         \* per node: "ok" or "rejected" promise chain
  memRes,           \* how that sendTrainingBatch call ended
  modelResponses,   \* the list applyVoting is called with
  votingResult,     \* the object applyVoting returned
  data,             \* data.discharges of the orchestrate call
  calls,            \* per node: the callModel call of that orchestrate
  predRes,          \* how far orchestrate is, or how it ended
  response,         \* what POST /predict answered
  hc,               \* per node, the call of the running healthCheck
  healthState,      \* how far the running healthCheck is
  healthResult,     \* what the last healthCheck returned
  checks,           \* number of healthCheck calls made
  trainingSummaries,  \* this.trainingSummaries
  recorded,         \* number of summaries stored so far
  sumIn,            \* the TrainingResponse last handed in
  sumRes,           \* how the last hand-in ended
  sumOps,           \* number of hand-ins made
  autoSession,      \* automatedPredictSessions[id]: "none", "open", "deleted"
  stats,            \* session.stats
  dischargeOrder,   \* session.dischargeOrder
  up,               \* the uploads, in the order they arrived
  arrived,          \* number of uploads that arrived
  csv,              \* per finalize request and model, the CSV in its archive
  fin,              \* the finalize requests, in the order they arrived
  zipRaw,           \* per finalize request, the raw files in its archive
  finalizes,        \* number of finalize requests that arrived
  parseIn,          \* the files handed to parseSensorFiles
  parseOut,         \* what parseSensorFiles returned or threw
  rawIn,            \* the rawDischarges handed to prepareTrainingStream
  yielded,          \* the discharges the generator has yielded so far
  streamRes,        \* the generator: running, done or thrown
  tasks,            \* per node: the promises chained on model.queue
  trainingUrl       \* config.models[n].trainingUrl, or that n is no key

\* the objects of one sendTrainingBatch call, followed field by field
memVars == <<rawD, memIdx, clones, memDone, memChain, memRes>>

\* argument and result of applyVoting
voteVars == <<modelResponses, votingResult>>

\* one orchestrate call
predVars == <<data, calls, predRes>>

\* POST /predict
httpVars == <<response>>

\* healthCheck
healthVars == <<hc, healthState, healthResult, checks>>

\* the training summaries
sumVars == <<trainingSummaries, recorded, sumIn, sumRes, sumOps>>

\* one automated-predict session
finVars == <<fin, zipRaw, finalizes>>
autoVars == <<autoSession, stats, dischargeOrder, up, arrived, csv, finVars>>

\* parseSensorFiles and prepareTrainingStream
parseVars == <<parseIn, parseOut, rawIn, yielded, streamRes>>

\* state of the HTTP endpoints and of the stores behind them
moreVars ==
  <<httpVars, healthVars, sumVars, autoVars, parseVars, tasks, trainingUrl>>

\* what POST /predict, healthCheck, the summaries and the automated-predict
\* session each leave alone
besidesReg == <<httpVars, healthVars, sumVars, autoVars, parseVars, tasks>>
besidesHttp == <<healthVars, sumVars, autoVars, parseVars, tasks, trainingUrl>>
besidesHealth == <<httpVars, sumVars, autoVars, parseVars, tasks, trainingUrl>>
besidesSum == <<httpVars, healthVars, autoVars, parseVars, tasks, trainingUrl>>
besidesAuto == <<httpVars, healthVars, sumVars, parseVars, tasks, trainingUrl>>
besidesParse == <<httpVars, healthVars, sumVars, autoVars, tasks, trainingUrl>>
besidesTasks ==
  <<httpVars, healthVars, sumVars, autoVars, parseVars, trainingUrl>>

\* state that the steps of the training session leave alone
auxVars == <<memVars, voteVars, predVars, moreVars>>

\* the training session and its callers
svcVars == <<models, trainingSession, created, sent, totalDischarges,
             autoFinish, sessModels, sessUrl, queue, chain, req, last, acked,
             targets, startAcks, ordLog, cl, ops, fails>>

vars == <<models, trainingSession, created, sent, totalDischarges, autoFinish,
          sessModels, sessUrl, queue, chain, req, last, acked, targets,
          startAcks, ordLog, cl, ops, fails, auxVars>>

sessVars == <<sent, totalDischarges, autoFinish, sessModels, sessUrl>>
queueVars == <<queue, chain, req, last, acked, targets>>

\* ------------------------------------------------------------------ helpers
\* a caller that is not inside a call; res is how its latest call ended:
\* "ok", or the error it threw
\* summary is the value startTrainingSession returned to it, if that was
\* its latest call
IdleClient == [pc |-> "idle", mode |-> "svc", batch |-> 0, read |-> 0,
               total |-> 0, todo |-> <<>>, ok |-> {}, failed |-> {},
               res |-> "none",
               summary |-> [successful |-> 0, failed |-> 0,
                            details |-> [n \in {} |-> "success"]]]

\* the call of client c ends with result r
Return(c, r) == cl' = [cl EXCEPT ![c] = [IdleClient EXCEPT !.res = r]]

RECURSIVE FilterSeq(_, _)
FilterSeq(s, S) ==
  IF s = <<>> THEN <<>>
  ELSE IF Head(s) \in S THEN <<Head(s)>> \o FilterSeq(Tail(s), S)
       ELSE FilterSeq(Tail(s), S)

\* Object.keys(this.models).filter(model => this.models[model].enabled)
enabledModels == FilterSeq(NodeOrder, models)

\* variant: no error makes postWithRetry post again
RetryableNever(o) == FALSE

\* variant: every error makes postWithRetry post again
RetryableAlways(o) == o # "ok"

\* error.message.includes('Network Error')
Retryable(o) == o = "neterr"

\* x >= y of JavaScript when x may be undefined
JsGE(x, y) == IF x = Undefined THEN FALSE ELSE x >= y

\* typeof x === 'number'
IsNumber(x) == x # Undefined

\* trainingSession.enqueued: no statement of the service assigns it
Enqueued(s) == Undefined

\* no call is being followed object by object
MemIdle ==
  /\ rawD = <<>>
  /\ memIdx = 0
  /\ clones = [n \in Nodes |-> <<>>]
  /\ memDone = [n \in Nodes |-> 0]
  /\ memChain = [n \in Nodes |-> "ok"]
  /\ memRes = "none"

\* applyVoting has not been called
VoteIdle ==
  /\ modelResponses = <<>>
  /\ votingResult = [pending |-> TRUE]

\* a callModel call that was not made; entry is what callModel returns
NoCall ==
  [state |-> "idle", outcome |-> "none",
   entry |-> [status |-> "error", prediction |-> Undefined,
              confidence |-> Undefined]]

\* orchestrate has not been called
PredIdle ==
  /\ data = [type |-> "undefined", length |-> 0]
  /\ calls = [n \in Nodes |-> NoCall]
  /\ predRes = "none"

\* no answer of POST /predict
NoResponse ==
  [status |-> 0, class |-> Undefined, confidence |-> [num |-> 0, den |-> 1],
   result |-> FALSE]

\* a health request that was not made
NoCheck == [state |-> "idle", outcome |-> "none", status |-> "none"]

\* healthCheck has not been called
HealthIdle ==
  /\ hc = [n \in Nodes |-> NoCheck]
  /\ healthState = "idle"
  /\ healthResult = [pending |-> TRUE]
  /\ checks = 0

\* a TrainingResponse: no body, null, or an object whose status is a word or
\* is missing or empty ("")
SummaryInputs ==
  {[type |-> t, status |-> ""] : t \in {"undefined", "null", "object"}}
    \cup {[type |-> "object", status |-> st] : st \in {"ok", "error"}}

\* no summary was handed in
SumIdle ==
  /\ trainingSummaries = <<>>
  /\ recorded = 0
  /\ sumIn = [type |-> "undefined", status |-> ""]
  /\ sumRes = "none"
  /\ sumOps = 0

\* discharge ids of uploads; safeId leaves them as they are
AutoIds == {"d1", "d2"}

\* one entry of session.stats[name].discharges
NoSeries ==
  [justifications |-> <<>>, thresholds |-> <<>>, count_thresholds |-> <<>>]

\* session.stats[name] before the first answer of node name; count 0 stands
\* for the missing entry
NoStats ==
  [count |-> 0, dischargeIds |-> <<>>,
   discharges |-> [id \in AutoIds |-> NoSeries]]

\* an upload that has not arrived
NoUpload ==
  [pc |-> "none", id |-> "d1", justification |-> Undefined,
   count |-> Undefined, snapshot |-> {}, windows |-> <<>>]

\* the CSV of a model without statistics: none is appended
NoCsv == [header |-> <<>>, rows |-> <<>>, appended |-> FALSE]

\* no automated-predict session was started
AutoIdle ==
  /\ autoSession = "none"
  /\ stats = [n \in Nodes |-> NoStats]
  /\ dischargeOrder = <<>>
  /\ up = [k \in 1..MaxUploads |-> NoUpload]
  /\ arrived = 0
  /\ csv = [f \in 1..MaxFinalizes |-> [n \in Nodes |-> NoCsv]]
  /\ fin = [f \in 1..MaxFinalizes |-> "none"]
  /\ zipRaw = [f \in 1..MaxFinalizes |-> {}]
  /\ finalizes = 0

\* parseSensorFiles has not returned
NoParse ==
  [status |-> "none", signals |-> <<>>, times |-> <<>>, hasTimes |-> FALSE,
   length |-> 0, warned |-> FALSE]

\* neither the parser nor the generator was called
ParseIdle ==
  /\ parseIn = <<>>
  /\ parseOut = NoParse
  /\ rawIn = <<>>
  /\ yielded = <<>>
  /\ streamRes = "done"

\* nothing is chained on a node's queue
TasksIdle == tasks = [n \in Nodes |-> <<>>]

\* the registry as it is loaded: every node is a key
RegIdle == trainingUrl = [n \in Nodes |-> "u1"]

\* no request has reached an endpoint
MoreIdle ==
  /\ response = NoResponse
  /\ HealthIdle
  /\ SumIdle
  /\ AutoIdle
  /\ ParseIdle
  /\ TasksIdle
  /\ RegIdle

\* the service as its constructor leaves it
SvcInit ==
  /\ models \in SUBSET Nodes
  /\ trainingSession = 0
  /\ created = 0
  /\ sent = [s \in Sessions |-> 0]
  /\ totalDischarges = [s \in Sessions |-> 0]
  /\ autoFinish = [s \in Sessions |-> FALSE]
  /\ sessModels = [s \in Sessions |-> {}]
  /\ sessUrl = [s \in Sessions |-> [n \in Nodes |-> NoUrl]]
  /\ targets = [s \in Sessions |-> [n \in Nodes |-> {}]]
  /\ queue = [s \in Sessions |-> [n \in Nodes |-> <<>>]]
  /\ chain = [s \in Sessions |-> [n \in Nodes |-> "ok"]]
  /\ req = [s \in Sessions |-> [n \in Nodes |-> 0]]
  /\ last = [s \in Sessions |-> [n \in Nodes |-> "none"]]
  /\ acked = [s \in Sessions |-> [n \in Nodes |-> <<>>]]
  /\ startAcks = [n \in Nodes |-> 0]
  /\ ordLog = [s \in Sessions |-> <<>>]
  /\ cl = [c \in Clients |-> IdleClient]
  /\ ops = 0
  /\ fails = 0

Init == SvcInit /\ MemIdle /\ VoteIdle /\ PredIdle /\ MoreIdle

\* the environment lets at most MaxFail axios calls fail
Failing(o) ==
  IF o = "ok" THEN fails' = fails
  ELSE fails < MaxFail /\ fails' = fails + 1

\* ------------------------------------------------- per-node promise chains
Task(seq, id) == [seq |-> seq, id |-> id]

\* variant: the callback is kept although the chain is rejected
ChainedAnyway(s, n, seq, id) == Append(queue[s][n], Task(seq, id))

\* model.queue = model.queue.then(() => sendDischargeWithRetry(url, seq, clone))
\* a callback chained on a rejected promise is never called
Chained(s, n, seq, id) ==
  IF chain[s][n] = "rejected" THEN queue[s][n]
  ELSE Append(queue[s][n], Task(seq, id))

\* variant: the ordinal is the length of the first node's chain plus one
SeqOfQueueLen(s) == Len(queue[s][NodeOrder[1]]) + 1

\* const seq = this.trainingSession.sent + 1
SeqOf(s) == sent[s] + 1

\* variant: the counter is not advanced
SentAfterForgotten(s) == sent[s]

\* this.trainingSession.sent += 1
SentAfter(s) == sent[s] + 1

\* variant: the URL is read from the registry when the task runs
TargetUrlOfRegistry(s, n) == trainingUrl[n]

\* sendDischargeWithRetry(model.trainingUrl, ...): model is the object the
\* session holds for the node
TargetUrl(s, n) == sessUrl[s][n]

\* url: `${url}/${seq}` of the options object built once per task
UrlOrdinal(s, n) == Head(queue[s][n]).seq

\* variant: one chain for all nodes, so a task waits while the POST of
\* another node of the session is being retried
RunnableShared(s, n) ==
  /\ queue[s][n] # <<>>
  /\ chain[s][n] = "ok"
  /\ \A m \in Nodes \ {n} : req[s][m] = 0

\* variant: finishTraining cancels the chains of the session it ends
RunnableWhileActive(s, n) ==
  /\ queue[s][n] # <<>>
  /\ chain[s][n] = "ok"
  /\ trainingSession = s

\* the callback of the head task runs once the promise before it in this
\* node's chain is fulfilled; no other state is consulted
Runnable(s, n) == queue[s][n] # <<>> /\ chain[s][n] = "ok"

\* one axios(options) call of postWithRetry for the task at the head of the
\* chain, from its issue to its settling; req keeps the ordinal of the options
\* object while the loop of postWithRetry is waiting to post it again
PostAttempt(s, n, o) ==
  /\ Runnable(s, n)
  /\ Failing(o)
  /\ last' = [last EXCEPT ![s][n] = o]
  /\ targets' = [targets EXCEPT ![s][n] = @ \cup {TargetUrl(s, n)}]
  /\ LET url == IF req[s][n] # 0 THEN req[s][n] ELSE UrlOrdinal(s, n) IN
     IF o = "ok"
     THEN /\ acked' = [acked EXCEPT ![s][n] =
                         Append(@, Task(url, Head(queue[s][n]).id))]
          /\ queue' = [queue EXCEPT ![s][n] = Tail(@)]
          /\ req' = [req EXCEPT ![s][n] = 0]
          /\ UNCHANGED chain
     ELSE IF Retryable(o)
     THEN /\ req' = [req EXCEPT ![s][n] = url]
          /\ UNCHANGED <<acked, queue, chain>>
     ELSE /\ chain' = [chain EXCEPT ![s][n] = "rejected"]
          /\ queue' = [queue EXCEPT ![s][n] = <<>>]
          /\ req' = [req EXCEPT ![s][n] = 0]
          /\ UNCHANGED acked
  /\ UNCHANGED <<models, trainingSession, created, sessVars, startAcks,
                 ordLog, cl, ops>>
  /\ UNCHANGED auxVars

\* ------------------------------------------------------ startTrainingSession
\* synchronous head of startTrainingSession, up to the first axios call
BeginStart(c, mode, batch, total) ==
  IF enabledModels = <<>>
  THEN Return(c, "NoModels")
  ELSE cl' = [cl EXCEPT ![c] =
                [IdleClient EXCEPT !.pc = "startPost", !.mode = mode,
                                   !.batch = batch, !.total = total,
                                   !.todo = enabledModels]]

\* sessionModels[modelName] = { trainingUrl: modelConfig.trainingUrl, ... }
\* of every node that answered the session start
Captured(accepted) ==
  [n \in Nodes |-> IF n \in accepted THEN trainingUrl[n] ELSE NoUrl]

\* variant: the session keeps every enabled node, whatever it answered
NewSessionOfAll(c, accepted) ==
  LET s == created + 1 IN
  /\ created' = s
  /\ trainingSession' = s
  /\ sent' = [sent EXCEPT ![s] = 0]
  /\ totalDischarges' = [totalDischarges EXCEPT ![s] = cl[c].total]
  /\ sessModels' = [sessModels EXCEPT ![s] = models]
  /\ sessUrl' = [sessUrl EXCEPT ![s] = Captured(models)]
  /\ UNCHANGED autoFinish

\* this.trainingSession = { totalDischarges, sent: 0, models: sessionModels }
NewSession(c, accepted) ==
  LET s == created + 1 IN
  /\ created' = s
  /\ trainingSession' = s
  /\ sent' = [sent EXCEPT ![s] = 0]
  /\ totalDischarges' = [totalDischarges EXCEPT ![s] = cl[c].total]
  /\ sessModels' = [sessModels EXCEPT ![s] = accepted]
  /\ sessUrl' = [sessUrl EXCEPT ![s] = Captured(accepted)]
  /\ UNCHANGED autoFinish

\* { successful, failed: details.length - successful, details }: details
\* holds one entry per node the loop has posted to
Summary(accepted, rejected) ==
  [successful |-> Cardinality(accepted),
   failed |-> Cardinality(accepted \cup rejected) - Cardinality(accepted),
   details |-> [n \in accepted \cup rejected |->
                  IF n \in accepted THEN "success" ELSE "error"]]

\* end of one iteration of the loop over enabledModels: the next node is
\* posted to, or the session object is stored and the summary returned
Advance(c, accepted, rejected) ==
  IF Tail(cl[c].todo) = <<>>
  THEN /\ NewSession(c, accepted)
       /\ IF cl[c].mode = "svc"
          THEN cl' = [cl EXCEPT ![c] =
                        [IdleClient EXCEPT
                           !.res = "ok",
                           !.summary = Summary(accepted, rejected)]]
          ELSE cl' = [cl EXCEPT ![c] =
                        [IdleClient EXCEPT !.pc = "afterStart",
                                           !.mode = cl[c].mode,
                                           !.batch = cl[c].batch]]
  ELSE /\ cl' = [cl EXCEPT ![c].pc = "startPost", ![c].todo = Tail(@),
                           ![c].ok = accepted, ![c].failed = rejected]
       /\ UNCHANGED <<trainingSession, created, sessVars>>

StartCall(c, total) ==
  /\ cl[c].pc = "idle"
  /\ ops < MaxOps
  /\ ops' = ops + 1
  /\ UNCHANGED fails
  /\ BeginStart(c, "svc", 0, total)
  /\ UNCHANGED <<models, trainingSession, created, sessVars, queueVars,
                 startAcks, ordLog>>
  /\ UNCHANGED auxVars

\* the session-start POST to the node at the head of the loop settles
StartResponse(c, o) ==
  /\ cl[c].pc \in {"startPost", "startBackoff"}
  /\ Failing(o)
  /\ LET n == Head(cl[c].todo) IN
     IF o = "ok"
     THEN /\ startAcks' = [startAcks EXCEPT ![n] = @ + 1]
          /\ Advance(c, cl[c].ok \cup {n}, cl[c].failed)
     ELSE IF Retryable(o)
     THEN /\ cl' = [cl EXCEPT ![c].pc = "startBackoff"]
          /\ UNCHANGED <<startAcks, trainingSession, created, sessVars>>
     ELSE /\ Advance(c, cl[c].ok, cl[c].failed \cup {n})
          /\ UNCHANGED startAcks
  /\ UNCHANGED <<models, queueVars, ordLog, ops>>
  /\ UNCHANGED auxVars

\* --------------------------------------------------------- sendTrainingBatch
\* variant: the session is not looked at before the stream is read
EnterBatchUnchecked(c, mode, batch) ==
  cl' = [cl EXCEPT ![c] =
           [IdleClient EXCEPT !.pc = "iter", !.mode = mode, !.batch = batch]]

\* variant: a batch for an active session posts the session start again
EnterBatchRestarting(c, mode, batch) ==
  IF trainingSession = 0
  THEN Return(c, "NoSession")
  ELSE cl' = [cl EXCEPT ![c] =
                [IdleClient EXCEPT !.pc = "startPost", !.mode = mode,
                                   !.batch = batch, !.todo = enabledModels]]

\* synchronous head of sendTrainingBatch, up to the first await of the stream
EnterBatch(c, mode, batch) ==
  IF trainingSession = 0
  THEN Return(c, "NoSession")
  ELSE cl' = [cl EXCEPT ![c] =
                [IdleClient EXCEPT !.pc = "iter", !.mode = mode,
                                   !.batch = batch]]

BatchCall(c, batch) ==
  /\ cl[c].pc = "idle"
  /\ ops < MaxOps
  /\ ops' = ops + 1
  /\ UNCHANGED fails
  /\ EnterBatch(c, "svc", batch)
  /\ UNCHANGED <<models, trainingSession, created, sessVars, queueVars,
                 startAcks, ordLog>>
  /\ UNCHANGED auxVars

\* one turn of `for await (const discharge of stream)`; cl[c].batch counts the
\* raw discharges the generator has not read yet, and the id of a raw discharge
\* is drawn when the generator reads it
BatchIter(c, id) ==
  /\ cl[c].pc = "iter"
  /\ IF cl[c].batch = 0
     THEN /\ IF cl[c].mode = "svc"
             THEN Return(c, "ok")
             ELSE cl' = [cl EXCEPT ![c] =
                           [IdleClient EXCEPT !.pc = "afterBatch",
                                              !.mode = cl[c].mode]]
          /\ UNCHANGED <<sent, queue, ordLog>>
     ELSE IF trainingSession = 0
     THEN /\ Return(c, "TypeError")
          /\ UNCHANGED <<sent, queue, ordLog>>
     ELSE LET s == trainingSession
              seq == SeqOf(s)
          IN /\ queue' = [queue EXCEPT ![s] =
                            [n \in Nodes |->
                               IF n \in sessModels[s]
                               THEN Chained(s, n, seq, id)
                               ELSE queue[s][n]]]
             /\ sent' = [sent EXCEPT ![s] = SentAfter(s)]
             /\ ordLog' = [ordLog EXCEPT ![s] = Append(@, Task(seq, id))]
             /\ cl' = [cl EXCEPT ![c].batch = @ - 1, ![c].read = @ + 1]
  /\ UNCHANGED <<models, trainingSession, created, totalDischarges,
                 autoFinish, sessModels, sessUrl, chain, req, last, acked,
                 targets, startAcks, ops, fails>>
  /\ UNCHANGED auxVars

\* ------------------------------------------------------------ finishTraining
FinishCall(c) ==
  /\ cl[c].pc = "idle"
  /\ ops < MaxOps
  /\ ops' = ops + 1
  /\ UNCHANGED fails
  /\ trainingSession' = 0
  /\ Return(c, "ok")
  /\ UNCHANGED <<models, created, sessVars, queueVars, startAcks, ordLog>>
  /\ UNCHANGED auxVars

\* ------------------------------------- OrchestratorController.train (POST /train)
TrainCall(c, batch, total) ==
  /\ cl[c].pc = "idle"
  /\ ops < MaxReqs
  /\ ops' = ops + 1
  /\ UNCHANGED fails
  /\ IF batch = 0
     THEN /\ Return(c, "BadRequest")
          /\ UNCHANGED <<totalDischarges, autoFinish>>
     ELSE IF trainingSession = 0
     THEN /\ BeginStart(c, "train", batch,
                        IF IsNumber(total) THEN total ELSE batch)
          /\ UNCHANGED <<totalDischarges, autoFinish>>
     ELSE LET s == trainingSession IN
          /\ IF ~autoFinish[s] /\ IsNumber(total)
             THEN /\ autoFinish' = [autoFinish EXCEPT ![s] = TRUE]
                  /\ totalDischarges' = [totalDischarges EXCEPT ![s] = total]
             ELSE IF autoFinish[s]
             THEN /\ totalDischarges' =
                       IF IsNumber(total) /\ total > totalDischarges[s]
                       THEN [totalDischarges EXCEPT ![s] = total]
                       ELSE totalDischarges
                  /\ UNCHANGED autoFinish
             ELSE /\ totalDischarges' =
                       [totalDischarges EXCEPT ![s] = @ + batch]
                  /\ UNCHANGED autoFinish
          /\ EnterBatch(c, "train", batch)
  /\ UNCHANGED <<models, trainingSession, created, sent, sessModels,
                 sessUrl, queueVars, startAcks, ordLog>>
  /\ UNCHANGED auxVars

\* the caller resumes after `await startTrainingSession(...)`
AfterStart(c) ==
  /\ cl[c].pc = "afterStart"
  /\ EnterBatch(c, cl[c].mode, cl[c].batch)
  /\ UNCHANGED <<models, trainingSession, created, sessVars, queueVars,
                 startAcks, ordLog, ops, fails>>
  /\ UNCHANGED auxVars

\* variant: the session is ended as soon as it has accepted totalDischarges
\* discharges, whether autoFinish is set or not
AfterBatchWhenFull(c) ==
  /\ cl[c].pc = "afterBatch"
  /\ trainingSession' =
       IF /\ trainingSession # 0
          /\ sent[trainingSession] >= totalDischarges[trainingSession]
       THEN 0
       ELSE trainingSession
  /\ Return(c, "ok")
  /\ UNCHANGED <<models, created, sessVars, queueVars, startAcks, ordLog,
                 ops, fails>>
  /\ UNCHANGED auxVars

\* the caller resumes after `await sendTrainingBatch(...)`
AfterBatch(c) ==
  /\ cl[c].pc = "afterBatch"
  /\ trainingSession' =
       IF /\ trainingSession # 0
          /\ autoFinish[trainingSession]
          /\ JsGE(Enqueued(trainingSession), totalDischarges[trainingSession])
       THEN 0
       ELSE trainingSession
  /\ Return(c, "ok")
  /\ UNCHANGED <<models, created, sessVars, queueVars, startAcks, ordLog,
                 ops, fails>>
  /\ UNCHANGED auxVars

\* ---------------------------------------------------------------- behaviour
\* the environment: axios calls settle, suspended calls resume
Settle ==
  \/ \E c \in Clients, o \in Outcomes : StartResponse(c, o)
  \/ \E s \in Sessions, n \in Nodes, o \in Outcomes : PostAttempt(s, n, o)

\* callers of the service methods
Next ==
  \/ \E c \in Clients, t \in Totals \ {Undefined} : StartCall(c, t)
  \/ \E c \in Clients, b \in BatchLens : BatchCall(c, b)
  \/ \E c \in Clients : FinishCall(c)
  \/ \E c \in Clients, id \in Ids : BatchIter(c, id)
  \/ Settle

Spec == Init /\ [][Next]_vars

\* the state in which startTrainingSession(2) of client c1 has returned, the
\* nodes of S having answered the session-start POST at once and the other
\* nodes having rejected it
StartedWith(S) ==
  /\ models = Nodes
  /\ trainingSession = 1
  /\ created = 1
  /\ sent = [s \in Sessions |-> 0]
  /\ totalDischarges = [s \in Sessions |-> IF s = 1 THEN 2 ELSE 0]
  /\ autoFinish = [s \in Sessions |-> FALSE]
  /\ sessModels = [s \in Sessions |-> IF s = 1 THEN S ELSE {}]
  /\ sessUrl = [s \in Sessions |->
                 [n \in Nodes |-> IF s = 1 /\ n \in S THEN "u1" ELSE NoUrl]]
  /\ targets = [s \in Sessions |-> [n \in Nodes |-> {}]]
  /\ queue = [s \in Sessions |-> [n \in Nodes |-> <<>>]]
  /\ chain = [s \in Sessions |-> [n \in Nodes |-> "ok"]]
  /\ req = [s \in Sessions |-> [n \in Nodes |-> 0]]
  /\ last = [s \in Sessions |-> [n \in Nodes |-> "none"]]
  /\ acked = [s \in Sessions |-> [n \in Nodes |-> <<>>]]
  /\ startAcks = [n \in Nodes |-> IF n \in S THEN 1 ELSE 0]
  /\ ordLog = [s \in Sessions |-> <<>>]
  /\ cl = [c \in Clients |->
            IF c = "c1"
            THEN [IdleClient EXCEPT !.res = "ok",
                                    !.summary = Summary(S, Nodes \ S)]
            ELSE IdleClient]
  /\ ops = 1
  /\ fails = 0

\* after a start that every node accepted
Started ==
  StartedWith(Nodes) /\ MemIdle /\ VoteIdle /\ PredIdle /\ MoreIdle

\* from there on every chain keeps running and the network lets a POST
\* through in the end
LiveSpec ==
  /\ Started
  /\ [][Next]_vars
  /\ \A s \in Sessions, n \in Nodes : WF_vars(PostAttempt(s, n, "ok"))

\* from there on node b answers in the end and suspended calls resume;
\* nothing is assumed of node a, so its POST may wait for a retry forever
LiveSpecB ==
  /\ Started
  /\ [][Next]_vars
  /\ \A s \in Sessions : WF_vars(PostAttempt(s, "b", "ok"))
  /\ \A c \in Clients : WF_vars(\E id \in Ids : BatchIter(c, id))

\* HTTP clients of POST /train
CtlNext ==
  \/ \E c \in Clients, b \in BatchLens, t \in Totals : TrainCall(c, b, t)
  \/ \E c \in Clients : AfterStart(c)
  \/ \E c \in Clients : AfterBatch(c)
  \/ \E c \in Clients, id \in CtlIds : BatchIter(c, id)
  \/ Settle

CtlSpec == Init /\ [][CtlNext]_vars

\* ------------------------------------------------------------------ claims
\* ------------------------------------ the objects of one sendTrainingBatch
\* what the caller put into a raw discharge: sensor files, parsed signals and
\* times, neither, or files of which there are none or one does not parse
Shapes == {"files", "processed", "bare", "unparsable"}

\* an object with the fields signals and times, each "ref" (it holds a
\* reference), "null" or "undefined"; values[i] is the field `values` of the
\* i-th object of the signals array
DischargeObject(sig, k) ==
  [signals |-> sig, times |-> sig, values |-> [i \in 1..k |-> "ref"]]

\* a raw discharge as its caller built it; k is the number of its signals
RawDischarge(shape, k) ==
  [shape |-> shape, k |-> k,
   obj |-> IF shape = "processed" THEN DischargeObject("ref", k)
           ELSE DischargeObject("undefined", 0)]

RawDischarges ==
  {RawDischarge(shape, k) : shape \in Shapes, k \in 0..MaxSignals}

\* the object prepareTrainingStream yields for d: a new object whose signals
\* and times are those parseSensorFiles built, or the very arrays of d
Prepared(d) == DischargeObject("ref", d.k)

\* variant: a shallow copy, whose signal objects are those of the yielded
\* object, emptied by its release at the end of the iteration
CloneShallow(y) ==
  [signals |-> y.signals, times |-> y.times,
   values |-> [i \in DOMAIN y.values |-> "null"]]

\* structuredClone(discharge): a deep copy, sharing nothing
Clone(y) == [signals |-> y.signals, times |-> y.times, values |-> y.values]

\* releaseDischarge(x)
ReleaseDischarge(x) ==
  [signals |-> IF x.signals = "ref" THEN "null" ELSE x.signals,
   times |-> "null",
   values |-> IF x.signals = "ref"
              THEN [i \in DOMAIN x.values |-> "null"]
              ELSE x.values]

\* the submitted object d once the object y yielded for it was released: the
\* signal objects are shared when d came with parsed signals, the fields
\* signals and times of d are its own
Submitted(d, y) ==
  IF d.shape = "processed"
  THEN [d EXCEPT !.obj.values = y.values]
  ELSE d

\* variant: the generator yields something for every raw discharge
MalformedNever(d) == FALSE

\* the generator throws for d: it has no files, a file of it does not parse,
\* or it has neither files nor signals and times
Malformed(d) == d.shape \in {"bare", "unparsable"}

\* one turn of the loop of sendTrainingBatch, object by object: the generator
\* reads the next raw discharge, every node of the session is chained a task
\* holding its own clone, and the yielded object is released
MemIter ==
  /\ memRes = "running"
  /\ IF memIdx = Len(rawD)
     THEN /\ memRes' = "ok"
          /\ UNCHANGED <<rawD, memIdx, clones, sent>>
     ELSE LET d == rawD[memIdx + 1]
              y == Prepared(d)
              s == trainingSession
          IN IF Malformed(d)
             THEN /\ memRes' = "error"
                  /\ UNCHANGED <<rawD, memIdx, clones, sent>>
             ELSE /\ clones' = [n \in Nodes |->
                                  IF n \in sessModels[s]
                                  THEN Append(clones[n], Clone(y))
                                  ELSE clones[n]]
                  /\ rawD' = [rawD EXCEPT ![memIdx + 1] =
                                Submitted(d, ReleaseDischarge(y))]
                  /\ sent' = [sent EXCEPT ![s] = SentAfter(s)]
                  /\ memIdx' = memIdx + 1
                  /\ UNCHANGED memRes
  /\ UNCHANGED <<models, trainingSession, created, totalDischarges,
                 autoFinish, sessModels, sessUrl, queueVars, startAcks,
                 ordLog, cl, ops, fails, memDone, memChain>>
  /\ UNCHANGED <<voteVars, predVars, moreVars>>

\* the task at the head of node n's chain settles with outcome o, and its
\* .finally() releases the clone it held; after a rejection the callbacks
\* chained behind it never run
MemTask(n, o) ==
  /\ memChain[n] = "ok"
  /\ memDone[n] < Len(clones[n])
  /\ clones' = [clones EXCEPT ![n][memDone[n] + 1] = ReleaseDischarge(@)]
  /\ memDone' = [memDone EXCEPT ![n] = @ + 1]
  /\ memChain' = [memChain EXCEPT ![n] = IF o = "ok" THEN "ok" ELSE "rejected"]
  /\ UNCHANGED <<models, trainingSession, created, sessVars, queueVars,
                 startAcks, ordLog, cl, ops, fails, rawD, memIdx, memRes>>
  /\ UNCHANGED <<voteVars, predVars, moreVars>>

\* a caller submits up to MaxRaw raw discharges to a session of any nodes
MemInit ==
  /\ \E S \in SUBSET Nodes : StartedWith(S)
  /\ rawD \in UNION {[1..k -> RawDischarges] : k \in 0..MaxRaw}
  /\ memIdx = 0
  /\ clones = [n \in Nodes |-> <<>>]
  /\ memDone = [n \in Nodes |-> 0]
  /\ memChain = [n \in Nodes |-> "ok"]
  /\ memRes = "running"
  /\ VoteIdle
  /\ PredIdle
  /\ MoreIdle

MemNext ==
  \/ MemIter
  \/ \E n \in Nodes, o \in Outcomes \ {"neterr"} : MemTask(n, o)

MemSpec == MemInit /\ [][MemNext]_vars

\* ------------------------------------------------------------- applyVoting
Null == -2                 \* the value null
DefaultConfidence == 100   \* 1.0; confidences are counted in hundredths
Classes == {0, 1}

\* a number a node may answer that is no class
OutOfClass == 2

\* confidence of a node's answer: none, or a number of [0, 1]
Confidences == {Undefined, 0, 50, 100}

\* what callModel returns: an error entry, or a success entry whose result
\* holds the prediction (a class, another number, or none) and the
\* confidence of the node
Responses ==
  {[status |-> "error", prediction |-> Undefined, confidence |-> Undefined]}
    \cup {[status |-> "success", prediction |-> p, confidence |-> c] :
            p \in Classes \cup {Undefined, OutOfClass}, c \in Confidences}

\* x || d of JavaScript for a number x that may be undefined
JsOr(x, d) == IF x = Undefined \/ x = 0 THEN d ELSE x

\* resp.status === 'success' && resp.result &&
\* resp.result.prediction !== undefined
IsSuccessful(resp) == resp.status = "success" /\ resp.prediction # Undefined

RECURSIVE SumSeq(_)
SumSeq(q) == IF q = <<>> THEN 0 ELSE Head(q) + SumSeq(Tail(q))

\* successfulResponses.forEach(...): the votes and the confidences per class
RECURSIVE Tally(_, _)
Tally(rs, acc) ==
  IF rs = <<>> THEN acc
  ELSE LET prediction == Head(rs).prediction
           confidence == JsOr(Head(rs).confidence, DefaultConfidence)
       IN Tally(Tail(rs),
                [votes |-> [acc.votes EXCEPT ![prediction] = @ + 1],
                 confidences |-> [acc.confidences EXCEPT ![prediction] =
                                    Append(@, confidence)]])

\* variant: a tie goes to class 0
WinningClassOrZero(votes) ==
  IF votes[0] >= votes[1] THEN 0 ELSE 1

\* winningClass, or Null where the code sets isTie
WinningClass(votes) ==
  IF votes[0] > votes[1] THEN 0
  ELSE IF votes[1] > votes[0] THEN 1
  ELSE Null

\* confidences[prediction].push(confidence) where confidences has no such
\* key: a TypeError
PushThrows(responses) ==
  \E i \in 1..Len(responses) :
    IsSuccessful(responses[i]) /\ responses[i].prediction \notin Classes

\* a confidence is kept as the quotient num / den the code computes
applyVoting(responses) ==
  LET successfulResponses == SelectSeq(responses, IsSuccessful)
      t == Tally(successfulResponses,
                 [votes |-> [c \in Classes |-> 0],
                  confidences |-> [c \in Classes |-> <<>>]])
      winningClass == WinningClass(t.votes)
  IN IF PushThrows(responses)
     THEN [thrown |-> <<"TypeError">>]
     ELSE IF Len(successfulResponses) = 0
     THEN [decision |-> Null,
           confidence |-> [num |-> 0, den |-> 1],
           message |-> <<"No models returned valid predictions">>]
     ELSE IF winningClass = Null
     THEN [votes |-> t.votes,
           totalVotes |-> Len(successfulResponses),
           totalModels |-> Len(responses),
           decision |-> Null,
           confidence |-> [num |-> 0, den |-> 1],
           message |-> <<"Tie in voting, unable to make prediction">>]
     ELSE [votes |-> t.votes,
           totalVotes |-> Len(successfulResponses),
           totalModels |-> Len(responses),
           decision |-> winningClass,
           confidence |->
             IF Len(t.confidences[winningClass]) > 0
             THEN [num |-> SumSeq(t.confidences[winningClass]),
                   den |-> Len(t.confidences[winningClass])]
             ELSE [num |-> 0, den |-> 1],
           message |-> <<"Class ", winningClass, " won by ",
                         t.votes[winningClass], " votes">>]

\* the voting engine is handed any list of up to MaxResponses entries
VoteInit ==
  /\ SvcInit
  /\ MemIdle
  /\ PredIdle
  /\ MoreIdle
  /\ modelResponses \in UNION {[1..k -> Responses] : k \in 0..MaxResponses}
  /\ votingResult = [pending |-> TRUE]

Vote ==
  /\ "pending" \in DOMAIN votingResult
  /\ votingResult' = applyVoting(modelResponses)
  /\ UNCHANGED <<models, trainingSession, created, sessVars, queueVars,
                 startAcks, ordLog, cl, ops, fails, memVars, modelResponses,
                 predVars, moreVars>>

VoteNext == Vote

VoteSpec == VoteInit /\ [][VoteNext]_vars

\* ------------------------------------------------- orchestrate / callModel
\* what the caller put under data.discharges: nothing, null, a value that is
\* no array, or an array of some length
DataShapes ==
  {[type |-> t, length |-> 0] : t \in {"undefined", "null", "object"}}
    \cup {[type |-> "array", length |-> k] : k \in 0..MaxDischarges}

\* !data.discharges || !Array.isArray(data.discharges)
InvalidData(d) == d.type \in {"undefined", "null"} \/ d.type # "array"

\* response.data.prediction as a node sends it
RawPredictions ==
  {[type |-> "number", num |-> c, str |-> ""] :
     c \in Classes \cup {OutOfClass}}
    \cup {[type |-> "string", num |-> 0, str |-> w] :
            w \in {"anomaly", "Anomaly", "normal"}}
    \cup {[type |-> "undefined", num |-> 0, str |-> ""]}

\* String.prototype.toLowerCase on the words of RawPredictions
ToLowerCase(w) == IF w = "Anomaly" THEN "anomaly" ELSE w

\* callModel: a string prediction becomes 1 for 'anomaly' and 0 otherwise
Coerced(p) ==
  IF p.type = "string"
  THEN IF ToLowerCase(p.str) = "anomaly" THEN 1 ELSE 0
  ELSE IF p.type = "number" THEN p.num
  ELSE Undefined

\* what callModel returns once axios has settled with outcome o, the node
\* having answered prediction p and confidence c if it answered
Entry(o, p, c) ==
  IF o = "ok"
  THEN [status |-> "success", prediction |-> Coerced(p), confidence |-> c]
  ELSE [status |-> "error", prediction |-> Undefined, confidence |-> Undefined]

\* orchestrate up to `await Promise.all(modelPromises)`: every callModel runs
\* up to its axios call at once
Orchestrate ==
  /\ predRes = "none"
  /\ IF InvalidData(data)
     THEN predRes' = "InvalidFormat" /\ UNCHANGED calls
     ELSE IF enabledModels = <<>>
     THEN predRes' = "NoModels" /\ UNCHANGED calls
     ELSE /\ calls' = [n \in Nodes |->
                         IF n \in models
                         THEN [NoCall EXCEPT !.state = "pending"]
                         ELSE calls[n]]
          /\ predRes' = "running"
  /\ UNCHANGED <<models, trainingSession, created, sessVars, queueVars,
                 startAcks, ordLog, cl, ops, fails, memVars, voteVars, data,
                 moreVars>>

\* variant: callModel lets the error of axios through
CallModelSettleRethrow(n, o, p, c) ==
  /\ predRes = "running"
  /\ calls[n].state = "pending"
  /\ calls' = [calls EXCEPT ![n] = [state |-> "done", outcome |-> o,
                                    entry |-> Entry(o, p, c)]]
  /\ predRes' = IF o = "ok" THEN predRes ELSE "error"
  /\ UNCHANGED <<models, trainingSession, created, sessVars, queueVars,
                 startAcks, ordLog, cl, ops, fails, memVars, voteVars, data,
                 moreVars>>

\* the axios call of callModel for node n settles, and callModel returns
CallModelSettle(n, o, p, c) ==
  /\ predRes = "running"
  /\ calls[n].state = "pending"
  /\ calls' = [calls EXCEPT ![n] = [state |-> "done", outcome |-> o,
                                    entry |-> Entry(o, p, c)]]
  /\ UNCHANGED <<models, trainingSession, created, sessVars, queueVars,
                 startAcks, ordLog, cl, ops, fails, memVars, voteVars, data,
                 predRes, moreVars>>

\* Promise.all is fulfilled: the responses are voted on and returned, or
\* orchestrate logs and rethrows what applyVoting threw
Gather ==
  /\ predRes = "running"
  /\ \A n \in models : calls[n].state = "done"
  /\ modelResponses' = [i \in 1..Len(enabledModels) |->
                          calls[enabledModels[i]].entry]
  /\ IF PushThrows(modelResponses')
     THEN predRes' = "TypeError" /\ UNCHANGED votingResult
     ELSE predRes' = "ok" /\ votingResult' = applyVoting(modelResponses')
  /\ UNCHANGED <<models, trainingSession, created, sessVars, queueVars,
                 startAcks, ordLog, cl, ops, fails, memVars, data, calls,
                 moreVars>>

\* orchestrate is called with any data.discharges
PredInit ==
  /\ SvcInit
  /\ MemIdle
  /\ VoteIdle
  /\ data \in DataShapes
  /\ calls = [n \in Nodes |-> NoCall]
  /\ predRes = "none"
  /\ MoreIdle

PredNext ==
  \/ Orchestrate
  \/ \E n \in Nodes, o \in Outcomes, p \in RawPredictions, c \in Confidences :
       CallModelSettle(n, o, p, c)
  \/ Gather

PredSpec == PredInit /\ [][PredNext]_vars

\* POST /predict up to the await of orchestrate
Predict ==
  /\ response = NoResponse
  /\ predRes = "none"
  /\ IF data.type \in {"undefined", "null"}
     THEN /\ response' = [NoResponse EXCEPT !.status = 400]
          /\ UNCHANGED <<svcVars, memVars, voteVars, predVars, besidesHttp>>
     ELSE Orchestrate

\* variant: the answer is 200 whatever the decision
PredictRespondAlwaysOk ==
  /\ response = NoResponse
  /\ predRes \notin {"none", "running"}
  /\ response' =
       IF predRes = "ok"
       THEN [status |-> 200, class |-> votingResult.decision,
             confidence |-> votingResult.confidence, result |-> TRUE]
       ELSE [NoResponse EXCEPT !.status = 500]
  /\ UNCHANGED <<svcVars, memVars, voteVars, predVars, besidesHttp>>

\* POST /predict after orchestrate has settled
PredictRespond ==
  /\ response = NoResponse
  /\ predRes \notin {"none", "running"}
  /\ response' =
       IF predRes = "ok"
       THEN IF votingResult.decision = Null
            THEN [NoResponse EXCEPT !.status = 409, !.result = TRUE]
            ELSE [status |-> 200, class |-> votingResult.decision,
                  confidence |-> votingResult.confidence, result |-> TRUE]
       ELSE [NoResponse EXCEPT !.status = 500]
  /\ UNCHANGED <<svcVars, memVars, voteVars, predVars, besidesHttp>>

\* POST /predict is called with any body
HttpInit == PredInit

HttpNext ==
  \/ Predict
  \/ \E n \in Nodes, o \in Outcomes, p \in RawPredictions, c \in Confidences :
       CallModelSettle(n, o, p, c)
  \/ Gather
  \/ PredictRespond

HttpSpec == HttpInit /\ [][HttpNext]_vars

\* -------------------------------------------------------------- healthCheck
\* healthCheck up to `await Promise.all(modelChecks)`: the entry of a disabled
\* node is there at once, every other node is sent a GET
HealthCheck ==
  /\ healthState # "running"
  /\ checks < MaxChecks
  /\ checks' = checks + 1
  /\ hc' = [n \in Nodes |->
              IF n \notin models
              THEN [state |-> "done", outcome |-> "none", status |-> "disabled"]
              ELSE [state |-> "pending", outcome |-> "none", status |-> "none"]]
  /\ healthState' = "running"
  /\ UNCHANGED <<svcVars, memVars, voteVars, predVars, besidesHealth, healthResult>>

\* the GET to node n settles with outcome o
HealthSettle(n, o) ==
  /\ healthState = "running"
  /\ hc[n].state = "pending"
  /\ hc' = [hc EXCEPT ![n] =
              [state |-> "done", outcome |-> o,
               status |-> IF o = "ok" THEN "online" ELSE "offline"]]
  /\ UNCHANGED <<svcVars, memVars, voteVars, predVars, besidesHealth, healthState,
                 healthResult, checks>>

\* the entry of node n in the result
HealthEntry(n) ==
  [model |-> n, status |-> hc[n].status, available |-> hc[n].status = "online"]

\* variant: availableModels counts the nodes that were sent a GET
HealthGatherCountContacted ==
  /\ healthState = "running"
  /\ \A n \in Nodes : hc[n].state = "done"
  /\ healthResult' =
       LET results == [i \in 1..Len(NodeOrder) |-> HealthEntry(NodeOrder[i])]
       IN [models |-> results,
           availableModels |->
             Len(SelectSeq(results, LAMBDA m : m.status # "disabled"))]
  /\ healthState' = "done"
  /\ UNCHANGED <<svcVars, memVars, voteVars, predVars, besidesHealth, hc, checks>>

\* Promise.all is fulfilled: the entries are returned with their count
HealthGather ==
  /\ healthState = "running"
  /\ \A n \in Nodes : hc[n].state = "done"
  /\ healthResult' =
       LET results == [i \in 1..Len(NodeOrder) |-> HealthEntry(NodeOrder[i])]
       IN [models |-> results,
           availableModels |-> Len(SelectSeq(results, LAMBDA m : m.available))]
  /\ healthState' = "done"
  /\ UNCHANGED <<svcVars, memVars, voteVars, predVars, besidesHealth, hc, checks>>

HealthInit == SvcInit /\ MemIdle /\ VoteIdle /\ PredIdle /\ MoreIdle

HealthNext ==
  \/ HealthCheck
  \/ \E n \in Nodes, o \in Outcomes : HealthSettle(n, o)
  \/ HealthGather

\* axios settles every GET, by its timeout at the latest, and the
\* continuation of Promise.all runs
HealthSpec ==
  /\ HealthInit
  /\ [][HealthNext]_vars
  /\ WF_vars(\E n \in Nodes, o \in Outcomes : HealthSettle(n, o))
  /\ WF_vars(HealthGather)

\* ------------------------------------------------------ training summaries
\* `keep last 100 summaries`
SummaryCap == 100

\* !data || typeof data !== 'object' || !data.status
InvalidResponse(d) == d.type # "object" \/ d.status = ""

\* variant: the newest entry is dropped when the store is full
PushedDropNewest(store, entry) ==
  IF Len(store) + 1 > SummaryCap THEN store ELSE Append(store, entry)

\* this.trainingSummaries after push(entry) and the shift() that follows it
Pushed(store, entry) ==
  IF Len(store) + 1 > SummaryCap
  THEN Tail(Append(store, entry))
  ELSE Append(store, entry)

\* the entry stored for d; serial stands for its place among all entries
SummaryEntry(d) == [serial |-> recorded + 1, status |-> d.status]

\* handleTrainingCompleted(d), called on the service
HandleTrainingCompleted(d) ==
  /\ sumOps < MaxRecords
  /\ sumOps' = sumOps + 1
  /\ sumIn' = d
  /\ IF InvalidResponse(d)
     THEN /\ sumRes' = "Invalid"
          /\ UNCHANGED <<trainingSummaries, recorded>>
     ELSE /\ trainingSummaries' = Pushed(trainingSummaries, SummaryEntry(d))
          /\ recorded' = recorded + 1
          /\ sumRes' = "stored"
  /\ UNCHANGED <<svcVars, memVars, voteVars, predVars, besidesSum>>

\* variant: the endpoint hands every body to the service
NoStatusNever(d) == FALSE

\* !data || !data.status
NoStatus(d) == d.type \in {"undefined", "null"} \/ d.status = ""

\* POST of a node's training summary: trainingCompleted(req, res) with body
\* d; body-parsing leaves an object where there is no body
TrainingCompleted(d) ==
  /\ sumOps < MaxRecords
  /\ sumOps' = sumOps + 1
  /\ sumIn' = d
  /\ IF NoStatus(d)
     THEN /\ sumRes' = "400"
          /\ UNCHANGED <<trainingSummaries, recorded>>
     ELSE IF InvalidResponse(d)
     THEN /\ sumRes' = "500"
          /\ UNCHANGED <<trainingSummaries, recorded>>
     ELSE /\ trainingSummaries' = Pushed(trainingSummaries, SummaryEntry(d))
          /\ recorded' = recorded + 1
          /\ sumRes' = "200"
  /\ UNCHANGED <<svcVars, memVars, voteVars, predVars, besidesSum>>

\* the store after n summaries were stored, for an n below, at or above the
\* length the store is kept to
SumInit ==
  /\ SvcInit
  /\ MemIdle
  /\ VoteIdle
  /\ PredIdle
  /\ response = NoResponse
  /\ HealthIdle
  /\ AutoIdle
  /\ ParseIdle
  /\ TasksIdle
  /\ RegIdle
  /\ \E n \in {0, SummaryCap - 2, SummaryCap - 1, SummaryCap} :
       /\ trainingSummaries = [i \in 1..n |-> [serial |-> i, status |-> "ok"]]
       /\ recorded = n
  /\ sumIn = [type |-> "undefined", status |-> ""]
  /\ sumRes = "none"
  /\ sumOps = 0

SumNext ==
  \/ \E d \in SummaryInputs : HandleTrainingCompleted(d)
  \/ \E d \in SummaryInputs : TrainingCompleted(d)

SumSpec == SumInit /\ [][SumNext]_vars

\* ------------------------------------------------ automated-predict session
\* window.justification after parseFloat
JustValues == {5, 7}

\* the justifications of the windows of a node's answer
Windows == UNION {[1..k -> JustValues] : k \in 0..MaxWindows}

\* thresholds[name] of a request, the same for every name: nothing, a
\* justification, or a justification and a count
Thresholds ==
  {[justification |-> Undefined, count |-> Undefined],
   [justification |-> 5, count |-> Undefined],
   [justification |-> 5, count |-> 2]}

\* parseFloat(cfg.justification) || 0
JustThresh(u) == JsOr(u.justification, 0)

\* parseInt(cfg.count) || 1
CountThresh(u) == JsOr(u.count, 1)

\* variant: a justification equal to the threshold passes
PassOrEqual(j, t) == IF j >= t THEN 1 ELSE 0

\* justification > justThresh ? 1 : 0
Pass(j, t) == IF j > t THEN 1 ELSE 0

\* history.length >= countThresh &&
\* history.slice(-countThresh).every(v => v === 1) ? 1 : 0
CountPass(history, c) ==
  IF /\ Len(history) >= c
     /\ \A i \in (Len(history) - c + 1)..Len(history) : history[i] = 1
  THEN 1 ELSE 0

\* variant: the streak is looked for among the entries of this upload only
AppendedOwnHistory(d, w, t, c) ==
  LET passes == [i \in 1..Len(w) |-> Pass(w[i], t)]
  IN [justifications |-> d.justifications \o w,
      thresholds |-> d.thresholds \o passes,
      count_thresholds |->
        d.count_thresholds \o
          [i \in 1..Len(w) |-> CountPass(SubSeq(passes, 1, i), c)]]

\* dStats after justArray.forEach(...) over the justifications w
Appended(d, w, t, c) ==
  LET passes == [i \in 1..Len(w) |-> Pass(w[i], t)]
      history == d.thresholds \o passes
  IN [justifications |-> d.justifications \o w,
      thresholds |-> history,
      count_thresholds |->
        d.count_thresholds \o
          [i \in 1..Len(w) |->
             CountPass(SubSeq(history, 1, Len(d.thresholds) + i), c)]]

\* array.includes(x)
Includes(q, x) == \E i \in 1..Len(q) : q[i] = x

\* session.stats[name] after the answer of node name to an upload of id
StatsAfter(st, id, w, t, c) ==
  [count |-> IF st.count = 0 THEN c ELSE st.count,
   dischargeIds |-> IF Includes(st.dischargeIds, id)
                    THEN st.dischargeIds
                    ELSE Append(st.dischargeIds, id),
   discharges |-> [st.discharges EXCEPT ![id] = Appended(@, w, t, c)]]

\* startAutomatedPredictsSession
StartAutomatedPredictsSession ==
  /\ autoSession = "none"
  /\ autoSession' = "open"
  /\ stats' = [n \in Nodes |-> NoStats]
  /\ dischargeOrder' = <<>>
  /\ UNCHANGED <<svcVars, memVars, voteVars, predVars, besidesAuto, up,
                 arrived, csv, finVars>>

\* uploadAutomatedPredict up to its first await: a request with nfiles
\* entries in req.files, dischargeId id and thresholds u
UploadArrive(id, u, nfiles) ==
  /\ arrived < MaxUploads
  /\ arrived' = arrived + 1
  /\ up' = [up EXCEPT ![arrived + 1] =
              [pc |-> IF autoSession # "open" \/ nfiles = 0
                      THEN "400" ELSE "reading",
               id |-> id, justification |-> u.justification,
               count |-> u.count, snapshot |-> {}, windows |-> <<>>]]
  /\ UNCHANGED <<svcVars, memVars, voteVars, predVars, besidesAuto,
                 autoSession, stats, dischargeOrder, csv, finVars>>

\* the files are read and parsed and orchestrate is called: it fails at
\* once when no node is enabled
UploadDispatch(k) ==
  /\ up[k].pc = "reading"
  /\ up' = [up EXCEPT ![k].pc = IF models = {} THEN "400" ELSE "orchestrating",
                      ![k].snapshot = models]
  /\ UNCHANGED <<svcVars, memVars, voteVars, predVars, besidesAuto,
                 autoSession, stats, dischargeOrder, arrived, csv, finVars>>

\* reading, parsing, orchestrate or the write of the raw result throws
UploadFail(k) ==
  /\ up[k].pc \in {"reading", "orchestrating"}
  /\ up' = [up EXCEPT ![k].pc = "400"]
  /\ UNCHANGED <<svcVars, memVars, voteVars, predVars, besidesAuto,
                 autoSession, stats, dischargeOrder, arrived, csv, finVars>>

\* orchestrate has returned, every node of the snapshot with the windows w,
\* and the raw result is written: the statistics are brought up to date
UploadProcess(k, w) ==
  /\ up[k].pc = "orchestrating"
  /\ stats' = [n \in Nodes |->
                 IF n \in up[k].snapshot
                 THEN StatsAfter(stats[n], up[k].id, w,
                                 JustThresh(up[k]), CountThresh(up[k]))
                 ELSE stats[n]]
  /\ dischargeOrder' = IF Includes(dischargeOrder, up[k].id)
                       THEN dischargeOrder
                       ELSE Append(dischargeOrder, up[k].id)
  /\ up' = [up EXCEPT ![k].pc = "ok", ![k].windows = w]
  /\ UNCHANGED <<svcVars, memVars, voteVars, predVars, besidesAuto,
                 autoSession, arrived, csv, finVars>>

\* a cell of a series, '' where the series is shorter
Cell(q, i) == IF i <= Len(q) THEN q[i] ELSE Undefined

\* the header of a CSV
RECURSIVE Headers(_)
Headers(ids) ==
  IF ids = <<>> THEN <<>>
  ELSE <<[id |-> Head(ids), column |-> "justification"],
         [id |-> Head(ids), column |-> "justification_threshold"],
         [id |-> Head(ids), column |-> "count_threshold"]>>
         \o Headers(Tail(ids))

\* row i of a CSV
RECURSIVE Row(_, _, _)
Row(st, ids, i) ==
  IF ids = <<>> THEN <<>>
  ELSE LET d == st.discharges[Head(ids)]
       IN <<Cell(d.justifications, i), Cell(d.thresholds, i),
            Cell(d.count_thresholds, i)>> \o Row(st, Tail(ids), i)

\* Math.max(0, ...lengths of the justifications)
MaxRows(st) ==
  LET lens == {0} \cup {Len(st.discharges[st.dischargeIds[i]].justifications) :
                          i \in 1..Len(st.dischargeIds)}
  IN CHOOSE x \in lens : \A y \in lens : y <= x

\* finalizeAutomatedPredicts up to `await readdir`, for the f-th request
\* to arrive: 400 without the session
FinalizeArrive(f) ==
  /\ finalizes = f - 1
  /\ finalizes' = f
  /\ fin' = [fin EXCEPT ![f] =
               IF autoSession # "open" THEN "400" ELSE "listing"]
  /\ UNCHANGED <<svcVars, memVars, voteVars, predVars, besidesAuto,
                 autoSession, stats, dischargeOrder, up, arrived, csv, zipRaw>>

\* the raw files written so far: one per upload that got that far
RawFiles == {up[k].id : k \in {j \in 1..MaxUploads : up[j].pc = "ok"}}

\* the CSV of one entry of session.stats
CsvOf(st) ==
  IF st.count = 0 THEN NoCsv
  ELSE [header |-> Headers(st.dischargeIds),
        rows |-> [i \in 1..MaxRows(st) |-> Row(st, st.dischargeIds, i)],
        appended |-> TRUE]

\* finalizeAutomatedPredicts once readdir has returned: the raw files it
\* lists and the CSV of every entry of session.stats go to the archive
FinalizeAutomatedPredicts(f) ==
  /\ fin[f] = "listing"
  /\ fin' = [fin EXCEPT ![f] = "packing"]
  /\ zipRaw' = [zipRaw EXCEPT ![f] = RawFiles]
  /\ csv' = [csv EXCEPT ![f] = [n \in Nodes |-> CsvOf(stats[n])]]
  /\ UNCHANGED <<svcVars, memVars, voteVars, predVars, besidesAuto,
                 autoSession, stats, dischargeOrder, up, arrived, finalizes>>

\* variant: the session stays in automatedPredictSessions
FinalizeDoneKeep(f) ==
  /\ fin[f] = "packing"
  /\ fin' = [fin EXCEPT ![f] = "done"]
  /\ UNCHANGED <<svcVars, memVars, voteVars, predVars, besidesAuto,
                 autoSession, stats, dischargeOrder, up, arrived, csv, zipRaw,
                 finalizes>>

\* the report is made or not, the archive is finalised and the session is
\* deleted
FinalizeDone(f) ==
  /\ fin[f] = "packing"
  /\ fin' = [fin EXCEPT ![f] = "done"]
  /\ autoSession' = "deleted"
  /\ UNCHANGED <<svcVars, memVars, voteVars, predVars, besidesAuto, stats,
                 dischargeOrder, up, arrived, csv, zipRaw, finalizes>>

\* updateModelConfig: config.models[n].enabled = e
UpdateModelConfig(n, e) ==
  /\ models' = IF e THEN models \cup {n} ELSE models \ {n}
  /\ UNCHANGED <<trainingSession, created, sessVars, queueVars, startAcks,
                 ordLog, cl, ops, fails, auxVars>>

AutoInit == SvcInit /\ MemIdle /\ VoteIdle /\ PredIdle /\ MoreIdle

AutoNext ==
  \/ StartAutomatedPredictsSession
  \/ \E id \in AutoIds, u \in Thresholds, nfiles \in {0, 1} :
       UploadArrive(id, u, nfiles)
  \/ \E k \in 1..MaxUploads : UploadDispatch(k)
  \/ \E k \in 1..MaxUploads : UploadFail(k)
  \/ \E k \in 1..MaxUploads, w \in Windows : UploadProcess(k, w)
  \/ FinalizeArrive(1)
  \/ FinalizeAutomatedPredicts(1)
  \/ FinalizeDone(1)
  \/ \E n \in Nodes, e \in BOOLEAN : UpdateModelConfig(n, e)

\* a session with uploads of every kind, nodes that are enabled and disabled
\* meanwhile, and one finalize request
AutoSpec == AutoInit /\ [][AutoNext]_vars

LifeNext ==
  \/ StartAutomatedPredictsSession
  \/ \E id \in AutoIds, nfiles \in {0, 1} :
       UploadArrive(id, [justification |-> Undefined, count |-> Undefined],
                    nfiles)
  \/ \E k \in 1..MaxUploads : UploadDispatch(k)
  \/ \E k \in 1..MaxUploads : UploadFail(k)
  \/ \E k \in 1..MaxUploads, w \in [1..1 -> JustValues] : UploadProcess(k, w)
  \/ \E f \in 1..MaxFinalizes : FinalizeArrive(f)
  \/ \E f \in 1..MaxFinalizes : FinalizeAutomatedPredicts(f)
  \/ \E f \in 1..MaxFinalizes : FinalizeDone(f)

\* a session with uploads without thresholds, answered with one window by
\* every node, and several finalize requests
LifeSpec == AutoInit /\ [][LifeNext]_vars

NonTransport == Outcomes \ {"ok", "neterr"}

\* C1: at every node of every session, the discharge POSTs the node has
\* answered carry the ordinals 1, 2, 3, ... in this order, without gap or
\* repeat, and a POST that is being retried carries the next ordinal; this
\* holds across sendTrainingBatch calls and across transport retries.
C1_OrdinalsInOrder ==
  \A s \in Sessions, n \in Nodes :
    /\ \A i \in 1..Len(acked[s][n]) : acked[s][n][i].seq = i
    /\ req[s][n] # 0 => req[s][n] = Len(acked[s][n]) + 1

\* a node has answered ordinals 1 and 2 and the POST of ordinal 3, which a
\* later sendTrainingBatch call enqueued, is being retried
C1_Witness ==
  \E s \in Sessions, n \in Nodes :
    /\ Len(acked[s][n]) = MaxBatchLen
    /\ req[s][n] = MaxBatchLen + 1
    /\ last[s][n] = "neterr"

\* C2: under interleaved sendTrainingBatch calls the accepted discharges of a
\* session carry the ordinals 1..N, each once, N being the session's counter,
\* and every node of the session is given each discharge under that ordinal:
\* what a healthy node has answered followed by what is chained for it is the
\* list of accepted discharges, and a poisoned node answered a prefix of it.
C2_AtomicOrdinals ==
  \A s \in Sessions :
    /\ Len(ordLog[s]) = sent[s]
    /\ \A i \in 1..Len(ordLog[s]) : ordLog[s][i].seq = i
    /\ \A n \in sessModels[s] :
         IF chain[s][n] = "ok"
         THEN acked[s][n] \o queue[s][n] = ordLog[s]
         ELSE /\ Len(acked[s][n]) < Len(ordLog[s])
              /\ acked[s][n] = SubSeq(ordLog[s], 1, Len(acked[s][n]))

\* two sendTrainingBatch calls are in the middle of their batches at once, on
\* a session of both nodes
C2_Witness ==
  /\ trainingSession # 0
  /\ sessModels[trainingSession] = Nodes
  /\ \A c \in Clients :
       cl[c].pc = "iter" /\ cl[c].read >= 1 /\ cl[c].batch >= 1

\* C3: a discharge id submitted several times within a session consumes one
\* ordinal and reaches each node in one POST.
C3_Dedup ==
  \A s \in Sessions, d \in Ids :
    /\ Cardinality({i \in 1..Len(ordLog[s]) : ordLog[s][i].id = d}) <= 1
    /\ \A n \in Nodes :
         Cardinality({i \in 1..Len(acked[s][n]) : acked[s][n][i].id = d}) <= 1

C5_OtherErrorsNotRetried ==
  /\ [](\A s \in Sessions, n \in Nodes :
         last[s][n] \in NonTransport =>
           chain[s][n] = "rejected" /\ req[s][n] = 0)
  /\ [](\A c \in Clients :
         /\ cl[c].failed \cap cl[c].ok = {}
         /\ \A i \in 1..Len(cl[c].todo) : cl[c].todo[i] \notin cl[c].failed)
  /\ [][\A s \in Sessions, n \in Nodes :
          chain[s][n] = "rejected" =>
            /\ last'[s][n] = last[s][n]
            /\ req'[s][n] = 0
            /\ chain'[s][n] = "rejected"]_vars

\* a node's chain is rejected by a timeout of the POST of ordinal 2, and the
\* start loop of a call has passed a node that refused the start
C5_Witness ==
  /\ \E s \in Sessions, n \in Nodes :
       last[s][n] = "timeout" /\ Len(acked[s][n]) = 1 /\ sent[s] >= 2
  /\ \E c \in Clients : cl[c].failed # {} /\ cl[c].todo # <<>>

\* C6: after a non-transport failure of a task of node x, nothing more is
\* posted to x in that session and the callbacks chained for x later never
\* run, while every other node of the session that has not failed itself has
\* answered or still has chained every accepted discharge.
C6_Poisoned ==
  /\ [][\A s \in Sessions, x \in Nodes :
          last[s][x] \in NonTransport =>
            acked'[s][x] = acked[s][x] /\ queue'[s][x] = <<>>]_vars
  /\ [](\A s \in Sessions, x \in Nodes :
         \A m \in sessModels[s] :
           (last[s][x] \in NonTransport /\ last[s][m] \notin NonTransport) =>
             acked[s][m] \o queue[s][m] = ordLog[s])

\* node a failed on ordinal 1, two more discharges were accepted afterwards
\* and node b has answered all three
C6_Witness ==
  \E s \in Sessions :
    /\ last[s]["a"] = "http"
    /\ acked[s]["a"] = <<>>
    /\ sent[s] = 3
    /\ Len(acked[s]["b"]) = 3

\* C7: whatever node a does, also when its POST waits for a retry forever,
\* node b again and again has answered every discharge accepted so far
\* (hence each accepted discharge is answered by b in the end) unless b itself
\* fails with a non-transport error, and every sendTrainingBatch call gets
\* past its loop and returns.
C7_Independent ==
  /\ \A s \in Sessions :
       []<>(\/ "b" \notin sessModels[s]
            \/ chain[s]["b"] = "rejected"
            \/ acked[s]["b"] = ordLog[s])
  /\ \A c \in Clients : []<>(cl[c].pc # "iter")

\* the POST of ordinal 1 to node a is waiting for a retry while node b has
\* answered two discharges and the call that submitted them has returned
C7_Witness ==
  \E s \in Sessions :
    /\ req[s]["a"] = 1
    /\ acked[s]["a"] = <<>>
    /\ Len(acked[s]["b"]) = 2
    /\ \A c \in Clients : cl[c].pc = "idle"

C9_SingleSession ==
  [][(trainingSession' # trainingSession /\ trainingSession' # 0)
       => trainingSession = 0]_vars

\* C10: a sendTrainingBatch call made while no session is active does not
\* enter its loop, and such a call changes nothing of the service: no
\* callback is chained, no counter moves, no session object is stored.
C10_BatchNeedsSession ==
  /\ [][\A c \in Clients :
          (cl[c].pc # "iter" /\ cl'[c].pc = "iter") => trainingSession # 0]_vars
  /\ [][(/\ trainingSession = 0
         /\ ops' = ops + 1
         /\ \A c \in Clients : cl'[c].pc # "startPost" \/ cl[c].pc = "startPost")
        => /\ \E c \in Clients :
                /\ cl[c].pc = "idle"
                /\ cl'[c].pc = "idle"
                /\ cl'[c].res \in {"NoSession", "ok", "NoModels"}
                /\ cl'[c].res = "NoModels" => models = {}
                /\ \A d \in Clients \ {c} : cl'[d] = cl[d]
           /\ UNCHANGED <<trainingSession, created, sessVars, queueVars,
                          startAcks, ordLog, fails>>]_vars

\* a sendTrainingBatch call was rejected after finishTraining had ended the
\* session
C10_Witness ==
  /\ trainingSession = 0
  /\ created = 1
  /\ \E c \in Clients : cl[c].res = "NoSession"

\* C11: when startTrainingSession returns, its summary has one detail per
\* enabled node, "error" for every node that rejected the start and "success"
\* for every node that answered it, successful + failed is the number of
\* enabled nodes, and the stored session holds exactly the successful nodes;
\* a node outside a session's node set is never posted a discharge of it.
C11_FailedExcluded ==
  /\ [][\A c \in Clients :
          (cl[c].pc \in {"startPost", "startBackoff"} /\ cl'[c].pc = "idle")
          => LET sum == cl'[c].summary
                 n == Head(cl[c].todo)
             IN /\ DOMAIN sum.details = models
                /\ sum.successful + sum.failed = Cardinality(models)
                /\ sessModels'[trainingSession'] =
                     {m \in models : sum.details[m] = "success"}
                /\ sum.successful = Cardinality(sessModels'[trainingSession'])
                /\ \A m \in cl[c].failed : sum.details[m] = "error"
                /\ \A m \in cl[c].ok : sum.details[m] = "success"
                /\ (sum.details[n] = "success")
                     <=> (startAcks'[n] = startAcks[n] + 1)]_vars
  /\ [](\A s \in Sessions : \A n \in Nodes \ sessModels[s] :
          /\ queue[s][n] = <<>>
          /\ acked[s][n] = <<>>
          /\ req[s][n] = 0
          /\ last[s][n] = "none")

\* node a rejected the start and the summary says so, while node b, the
\* only node of the session, has answered a discharge
C11_Witness ==
  /\ trainingSession # 0
  /\ sessModels[trainingSession] = {"b"}
  /\ acked[trainingSession]["b"] # <<>>
  /\ \E c \in Clients : cl[c].summary = Summary({"b"}, {"a"})

\* C12: startTrainingSession never returns normally with a summary in
\* which no node accepted the start: that outcome reaches the caller as an
\* error.
C12_NoAcceptIsError ==
  \A c \in Clients :
    (cl[c].res = "ok" /\ DOMAIN cl[c].summary.details # {})
      => cl[c].summary.successful >= 1

\* C13: a POST /train request that completes its batch while the session has
\* autoFinish set, has accepted exactly totalDischarges discharges and has
\* every queue drained leaves the service Idle; and no step takes an active
\* session to Idle unless autoFinish is set, the accepted count has reached
\* totalDischarges and every queue of the session is drained.
C13_AutoFinish ==
  /\ [][\A c \in Clients :
          (/\ cl[c].pc = "afterBatch"
           /\ cl'[c].pc = "idle"
           /\ trainingSession # 0
           /\ autoFinish[trainingSession]
           /\ sent[trainingSession] = totalDischarges[trainingSession]
           /\ \A n \in sessModels[trainingSession] :
                 queue[trainingSession][n] = <<>>)
          => trainingSession' = 0]_vars
  /\ [][(trainingSession # 0 /\ trainingSession' = 0)
        => /\ autoFinish[trainingSession]
           /\ sent[trainingSession] = totalDischarges[trainingSession]
           /\ \A n \in sessModels[trainingSession] :
                 queue[trainingSession][n] = <<>>]_vars

\* C14: no step of a POST /train request ends a session whose autoFinish is
\* not set, however many discharges it has accepted: the service stays
\* Active.
C14_StaysActive ==
  [][(trainingSession # 0 /\ ~autoFinish[trainingSession])
       => trainingSession' # 0]_vars

\* two requests without a total have completed: the session still is
\* active, without autoFinish, with as many discharges accepted as its
\* lazily grown totalDischarges, all of them answered
C14_Witness ==
  /\ trainingSession # 0
  /\ ~autoFinish[trainingSession]
  /\ ops = MaxReqs
  /\ \A c \in Clients : cl[c].pc = "idle" /\ cl[c].res = "ok"
  /\ sent[trainingSession] = totalDischarges[trainingSession]
  /\ sent[trainingSession] >= 2
  /\ \A n \in sessModels[trainingSession] : queue[trainingSession][n] = <<>>

\* C15: once a session has ended, nothing more happens on its queues: no
\* POST of it is answered, retried or dropped by a node any more.
C15_CancelledOnFinish ==
  [][\A s \in Sessions, n \in Nodes :
       (s <= created /\ trainingSession # s)
         => /\ acked'[s][n] = acked[s][n]
            /\ req'[s][n] = req[s][n]
            /\ last'[s][n] = last[s][n]]_vars

\* C16: once the loop has passed a discharge submitted with signals and
\* times and every node of the session has completed its task for it, the
\* fields signals and times of the submitted object are null.
C16_Released ==
  \A i \in 1..Len(rawD) :
    (/\ rawD[i].shape = "processed"
     /\ memIdx >= i
     /\ \A n \in sessModels[trainingSession] : memDone[n] >= i)
      => /\ rawD[i].obj.signals = "null"
         /\ rawD[i].obj.times = "null"

C18_MeanConfidence ==
  "decision" \in DOMAIN votingResult =>
    LET d == votingResult.decision
        winners == SelectSeq(modelResponses,
                             LAMBDA r : r.status = "success" /\ r.prediction = d)
        reported == [i \in 1..Len(winners) |->
                       IF winners[i].confidence = Undefined
                       THEN DefaultConfidence
                       ELSE winners[i].confidence]
    IN IF d = Null
       THEN votingResult.confidence.num = 0
       ELSE votingResult.confidence.num * Len(winners)
              = SumSeq(reported) * votingResult.confidence.den

C20_Validated ==
  (data.type # "array" \/ data.length = 0)
    => /\ predRes \in {"none", "InvalidFormat"}
       /\ \A n \in Nodes : calls[n].state = "idle"

\* C21: when no node is enabled, orchestrate fails with "No models are
\* enabled" without contacting any node, and POST /predict answers 400 or
\* 503, never 500.
C21_NoModelsSurfaced ==
  (models = {} /\ ~InvalidData(data)) =>
    /\ predRes \in {"none", "NoModels"}
    /\ \A n \in Nodes : calls[n] = NoCall
    /\ response.status \in {0, 400, 503}

\* C23: every answer callModel returns as a success carries a prediction in
\* {0, 1}, the string "anomaly" in any letter case having become 1 and
\* anything else 0; applyVoting therefore tallies classes only and never
\* throws.
C23_Normalised ==
  /\ \A n \in Nodes :
       (calls[n].state = "done" /\ calls[n].entry.status = "success") =>
         calls[n].entry.prediction \in Classes \cup {Undefined}
  /\ predRes # "TypeError"
  /\ \A p \in RawPredictions :
       /\ (p.type = "string" /\ p.str \in {"anomaly", "Anomaly"})
            => Coerced(p) = 1
       /\ (p.type = "string" /\ p.str \notin {"anomaly", "Anomaly"})
            => Coerced(p) = 0

\* C22: POST /predict answers 200 with class and confidence of the vote
\* exactly when orchestrate returned a decision 0 or 1, answers 409 with the
\* whole result when the vote has no winner, and answers 400 when the body
\* has no discharges.
C22_PredictStatus ==
  response.status # 0 =>
    /\ response.status = 200 <=>
         (predRes = "ok" /\ votingResult.decision \in Classes)
    /\ response.status = 200 =>
         /\ response.class = votingResult.decision
         /\ response.confidence = votingResult.confidence
    /\ (predRes = "ok" /\ votingResult.decision = Null) =>
         (response.status = 409 /\ response.result)
    /\ data.type \in {"undefined", "null"} => response.status = 400

\* a vote of two nodes against each other was answered with 409
C22_Witness ==
  /\ response.status = 409
  /\ predRes = "ok"
  /\ votingResult.decision = Null
  /\ "totalVotes" \in DOMAIN votingResult
  /\ votingResult.totalVotes = 2

\* C24: every healthCheck that was started completes, whatever the GETs end
\* with; its result holds exactly one entry per registered node; a disabled
\* node has status "disabled", is sent no GET and is not counted; and
\* availableModels is the number of entries with status "online".
C24_Entries ==
  /\ \A n \in Nodes \ models : hc[n].outcome = "none"
  /\ "models" \in DOMAIN healthResult =>
       LET results == healthResult.models
       IN /\ \A n \in Nodes :
               Cardinality({i \in 1..Len(results) : results[i].model = n}) = 1
          /\ Len(results) = Cardinality(Nodes)
          /\ \A i \in 1..Len(results) :
               /\ results[i].model \notin models
                    <=> results[i].status = "disabled"
               /\ results[i].status \in {"disabled", "online", "offline"}
          /\ healthResult.availableModels =
               Cardinality({i \in 1..Len(results) :
                              results[i].status = "online"})

C24_HealthCheck ==
  /\ []C24_Entries
  /\ (healthState = "running") ~> (healthState = "done")

\* node a is disabled and node b timed out: two entries, none available
C24_Witness ==
  /\ healthState = "done"
  /\ models = {"b"}
  /\ hc["b"].outcome = "timeout"
  /\ healthResult.models[1].status = "disabled"
  /\ healthResult.models[2].status = "offline"
  /\ healthResult.availableModels = 0

\* C25: the store of training summaries never holds more than 100 entries,
\* and it holds the entries stored most recently (all of them while there
\* are at most 100) in the order they were stored: the oldest entry is the
\* one that goes.
C25_NewestKept ==
  /\ Len(trainingSummaries) <= SummaryCap
  /\ Len(trainingSummaries) =
       (IF recorded < SummaryCap THEN recorded ELSE SummaryCap)
  /\ \A i \in 1..Len(trainingSummaries) :
       trainingSummaries[i].serial = recorded - Len(trainingSummaries) + i

\* 102 summaries were stored: the store holds the 3rd to the 102nd
C25_Witness ==
  /\ recorded = SummaryCap + 2
  /\ Len(trainingSummaries) = SummaryCap
  /\ trainingSummaries[1].serial = 3
  /\ trainingSummaries[SummaryCap].serial = SummaryCap + 2

\* C26: handing in a training summary without a status fails (the service
\* throws, the endpoint answers 400) and leaves the store as it was.
C26_Rejected ==
  [][(sumOps' # sumOps /\ sumIn'.status = "") =>
       /\ trainingSummaries' = trainingSummaries
       /\ sumRes' \in {"Invalid", "400"}]_vars

\* the endpoint has answered 400 to an object without a status, the store
\* holding what it held
C26_Witness ==
  /\ sumRes = "400"
  /\ sumIn = [type |-> "object", status |-> ""]
  /\ Len(trainingSummaries) = SummaryCap

\* C27: whenever an upload is worked into the statistics, each entry it
\* appends to count_thresholds of a (model, discharge) is 1 exactly when the
\* thresholds series of that (model, discharge), earlier uploads included,
\* holds at least `count` entries up to that index and the last `count` of
\* them are all 1.
C27_Streak ==
  [][\A k \in 1..MaxUploads :
       (up[k].pc = "orchestrating" /\ up'[k].pc = "ok") =>
         \A n \in up[k].snapshot :
           LET old == stats[n].discharges[up[k].id]
               new == stats'[n].discharges[up[k].id]
               c == IF up[k].count = Undefined THEN 1 ELSE up[k].count
           IN \A i \in (Len(old.count_thresholds) + 1)
                          ..Len(new.count_thresholds) :
                /\ new.count_thresholds[i] \in {0, 1}
                /\ new.count_thresholds[i] = 1 <=>
                     /\ i >= c
                     /\ \A j \in (i - c + 1)..i : new.thresholds[j] = 1]_vars

\* two uploads of d1 with count 2 brought one passing window each: the
\* second entry completes a streak that began in the first upload
C27_Witness ==
  /\ \A k \in 1..2 : /\ up[k].pc = "ok"
                      /\ up[k].id = "d1"
                      /\ up[k].count = 2
                      /\ up[k].windows = <<7>>
                      /\ "a" \in up[k].snapshot
  /\ stats["a"].discharges["d1"].thresholds = <<1, 1>>
  /\ stats["a"].discharges["d1"].count_thresholds = <<0, 1>>

\* the three series of every (model, discharge) are equally long
C28_EqualLength ==
  \A n \in Nodes, id \in AutoIds :
    LET d == stats[n].discharges[id]
    IN /\ Len(d.justifications) = Len(d.thresholds)
       /\ Len(d.thresholds) = Len(d.count_thresholds)

\* C28: for each justification j of the windows of an upload the entry
\* appended to thresholds is 1 exactly when j is greater than the
\* justification threshold of the request and 0 when it is equal or less; a
\* request without thresholds is served with threshold 0 and count 1; and the
\* series justifications, thresholds and count_thresholds of a (model,
\* discharge) are always equally long.
C28_Thresholds ==
  /\ []C28_EqualLength
  /\ [][\A k \in 1..MaxUploads :
          (up[k].pc = "orchestrating" /\ up'[k].pc = "ok") =>
            \A n \in up[k].snapshot :
              LET old == stats[n].discharges[up[k].id]
                  new == stats'[n].discharges[up[k].id]
                  w == up'[k].windows
                  t == IF up[k].justification = Undefined
                       THEN 0 ELSE up[k].justification
              IN /\ new.justifications = old.justifications \o w
                 /\ Len(new.thresholds) = Len(old.thresholds) + Len(w)
                 /\ \A i \in 1..Len(w) :
                      LET e == Len(old.thresholds) + i
                      IN /\ w[i] > t => new.thresholds[e] = 1
                         /\ w[i] <= t => new.thresholds[e] = 0
                         /\ up[k].count = Undefined =>
                              new.count_thresholds[e] = new.thresholds[e]]_vars

\* an upload with justification threshold 5 brought the windows 5 and 7:
\* the equal one does not pass, the greater one does
C28_Witness ==
  /\ up[1].pc = "ok"
  /\ up[1].justification = 5
  /\ up[1].windows = <<5, 7>>
  /\ "a" \in up[1].snapshot
  /\ stats["a"].discharges[up[1].id].justifications = <<5, 7>>
  /\ stats["a"].discharges[up[1].id].thresholds = <<0, 1>>

\* C29: at finalisation the CSV of every model has the three columns of
\* each discharge of dischargeOrder, in that order, and as many rows as the
\* longest justifications series of that model, every row holding a cell
\* (blank where a series is shorter) per column; so also when nodes were
\* enabled or disabled between uploads.
C29_CsvShape ==
  [][\A f \in 1..MaxFinalizes :
       (fin[f] = "listing" /\ fin'[f] = "packing") =>
         \A n \in Nodes :
           csv'[f][n].appended =>
             /\ csv'[f][n].header = Headers(dischargeOrder)
             /\ Len(csv'[f][n].header) = 3 * Len(dischargeOrder)
             /\ Len(csv'[f][n].rows) = MaxRows(stats[n])
             /\ \A i \in 1..Len(csv'[f][n].rows) :
                  Len(csv'[f][n].rows[i]) = 3 * Len(dischargeOrder)]_vars

\* the ids of q, each at its first place
RECURSIVE FirstSights(_)
FirstSights(q) ==
  IF q = <<>> THEN <<>>
  ELSE LET rest == FirstSights(SubSeq(q, 1, Len(q) - 1))
       IN IF Includes(rest, q[Len(q)]) THEN rest ELSE Append(rest, q[Len(q)])

\* the ids of the first k uploads that were answered ok, as they arrived
RECURSIVE UploadedIds(_)
UploadedIds(k) ==
  IF k = 0 THEN <<>>
  ELSE IF up[k].pc = "ok" THEN Append(UploadedIds(k - 1), up[k].id)
  ELSE UploadedIds(k - 1)

\* the justifications node n delivered for id in the first k uploads, as
\* the uploads arrived
RECURSIVE Delivered(_, _, _)
Delivered(n, id, k) ==
  IF k = 0 THEN <<>>
  ELSE IF up[k].pc = "ok" /\ up[k].id = id /\ n \in up[k].snapshot
  THEN Delivered(n, id, k - 1) \o up[k].windows
  ELSE Delivered(n, id, k - 1)

\* C30: once the uploads of a session are answered, dischargeOrder holds
\* the id of every accepted upload once, in the order the ids first arrived,
\* and the justifications of a (model, discharge) are those of its uploads
\* in the order the uploads arrived; so also when uploads overlap.
C30_FirstSightOrder ==
  (\A k \in 1..arrived : up[k].pc \in {"ok", "400"}) =>
    /\ dischargeOrder = FirstSights(UploadedIds(arrived))
    /\ \A n \in Nodes, id \in AutoIds :
         stats[n].discharges[id].justifications = Delivered(n, id, arrived)

\* the session is gone once a finalize request has completed
C31_Deleted ==
  (\E f \in 1..MaxFinalizes : fin[f] = "done") => autoSession = "deleted"

\* C31: an upload or a finalize request that names a session that is not in
\* the store (never started, or deleted) is answered 400 and changes nothing
\* of a session; a finalize request that completes deletes its session, so
\* every upload and finalize request that arrives later is answered 400.
C31_UnknownSession ==
  /\ []C31_Deleted
  /\ [][/\ \A k \in 1..MaxUploads :
            (arrived = k - 1 /\ arrived' = k /\ autoSession # "open") =>
              /\ up'[k].pc = "400"
              /\ UNCHANGED <<autoSession, stats, dischargeOrder, csv, zipRaw>>
        /\ \A f \in 1..MaxFinalizes :
            (finalizes = f - 1 /\ finalizes' = f /\ autoSession # "open") =>
              /\ fin'[f] = "400"
              /\ UNCHANGED <<autoSession, stats, dischargeOrder, csv, zipRaw>>
        /\ \A f \in 1..MaxFinalizes :
            (fin[f] = "packing" /\ fin'[f] = "done") =>
              autoSession' = "deleted"]_vars

\* the first finalize request completed after an upload was answered ok; the
\* next upload and the next finalize request were answered 400
C31_Witness ==
  /\ fin[1] = "done"
  /\ fin[2] = "400"
  /\ up[1].pc = "ok"
  /\ up[2].pc = "400"
  /\ up[2].snapshot = {}
  /\ autoSession = "deleted"

\* C38: the archive of a finalize request that completed holds the raw file
\* of every upload answered ok and CSVs with the rows of every such upload,
\* also of an upload that was under way while the request was served.
C38_ZipComplete ==
  \A f \in 1..MaxFinalizes :
    fin[f] = "done" =>
      /\ RawFiles \subseteq zipRaw[f]
      /\ \A n \in Nodes : csv[f][n] = CsvOf(stats[n])

\* the payload x holds its signals, their values and its times
Intact(x) ==
  /\ x.signals = "ref"
  /\ x.times = "ref"
  /\ \A i \in DOMAIN x.values : x.values[i] = "ref"

\* C35: the payload of every task that a node has not completed, the one
\* being posted or posted again and those chained behind it, holds its
\* signals, their values and its times, whatever was released for the
\* submitted object, for the yielded one or for another node's task.
C35_PayloadIntact ==
  \A n \in Nodes :
    \A k \in 1..Len(clones[n]) :
      k > memDone[n] => Intact(clones[n][k])

\* node a completed its task for a discharge of two signals; the yielded
\* object, with it the signals of the submitted one, and node a's clone were
\* released, while node b has yet to post the discharge
C35_Witness ==
  /\ sessModels[trainingSession] = Nodes
  /\ memIdx = 2
  /\ rawD[1].shape = "processed"
  /\ rawD[1].k = 2
  /\ rawD[1].obj.values[1] = "null"
  /\ memDone["a"] = 1
  /\ ~Intact(clones["a"][1])
  /\ memDone["b"] = 0
  /\ Len(clones["b"]) = 2
  /\ Len(clones["b"][1].values) = 2

\* the session-start POSTs node n answered: one for each session object
\* that holds n and one for each start loop under way that n has accepted
StartsOwed(n) ==
  Cardinality({s \in 1..created : n \in sessModels[s]})
    + Cardinality({c \in Clients :
                     /\ cl[c].pc \in {"startPost", "startBackoff"}
                     /\ n \in cl[c].ok})

\* C36: every node of a session answered one session-start POST for it and
\* none besides; a discharge is posted only to a node of a session that was
\* stored, hence after that node answered the start; a train request that
\* arrives while a session is active posts no session start.
C36_OneStart ==
  /\ [](\A n \in Nodes : startAcks[n] = StartsOwed(n))
  /\ [](\A s \in Sessions, n \in Nodes :
          (acked[s][n] # <<>> \/ queue[s][n] # <<>>) =>
            /\ s <= created
            /\ n \in sessModels[s]
            /\ startAcks[n] >= 1)
  /\ [][\A c \in Clients :
          (cl[c].pc \notin {"startPost", "startBackoff"}
             /\ cl'[c].pc = "startPost") =>
            trainingSession = 0 /\ cl[c].pc = "idle"]_vars

\* two train requests were served one after the other: one session, one
\* session start per node, and both nodes answered the discharges of both
C36_Witness ==
  /\ created = 1
  /\ ops = 2
  /\ \A c \in Clients : cl[c].pc = "idle" /\ cl[c].res = "ok"
  /\ \A n \in Nodes : startAcks[n] = 1 /\ Len(acked[1][n]) = 2

\* C37: for every list of responses with at least one valid prediction the
\* voting engine returns counts with votes[0] + votes[1] = totalVotes,
\* totalVotes <= totalModels and totalModels the number of responses given.
C37_VoteCounts ==
  (/\ "pending" \notin DOMAIN votingResult
   /\ \E i \in 1..Len(modelResponses) :
        /\ modelResponses[i].status = "success"
        /\ modelResponses[i].prediction \in Classes)
    => /\ "votes" \in DOMAIN votingResult
       /\ votingResult.votes[0] + votingResult.votes[1]
            = votingResult.totalVotes
       /\ votingResult.totalVotes <= votingResult.totalModels
       /\ votingResult.totalModels = Len(modelResponses)

\* C40: when sendTrainingBatch fails on its k-th raw discharge, which is
\* malformed, the k-1 discharges before it were each given the next ordinal
\* and chained on every node of the session, none from the k-th on was, and
\* the session is still stored with its counter k-1 higher than before; a
\* malformed discharge is never given an ordinal.
C40_PartialBatch ==
  /\ [](memRes = "error" =>
          /\ memIdx < Len(rawD)
          /\ rawD[memIdx + 1].shape \in {"bare", "unparsable"}
          /\ \A i \in 1..memIdx : rawD[i].shape \in {"files", "processed"}
          /\ trainingSession # 0
          /\ sent[trainingSession] = memIdx
          /\ \A n \in Nodes :
               Len(clones[n]) =
                 IF n \in sessModels[trainingSession] THEN memIdx ELSE 0)
  /\ [][memIdx' # memIdx =>
          /\ memIdx' = memIdx + 1
          /\ rawD[memIdx'].shape \in {"files", "processed"}
          /\ SeqOf(trainingSession) = memIdx'
          /\ sent'[trainingSession] = SeqOf(trainingSession)
          /\ \A n \in sessModels[trainingSession] :
               Len(clones'[n]) = Len(clones[n]) + 1]_vars
  /\ [][(memRes # "error" /\ memRes' = "error") =>
          UNCHANGED <<trainingSession, sent, clones, memIdx>>]_vars

\* the call failed on its second raw discharge, whose files do not parse,
\* after the first was chained on both nodes with ordinal 1
C40_Witness ==
  /\ memRes = "error"
  /\ memIdx = 1
  /\ Len(rawD) = 2
  /\ rawD[2].shape = "unparsable"
  /\ sessModels[trainingSession] = Nodes
  /\ sent[trainingSession] = 1
  /\ \A n \in Nodes : Len(clones[n]) = 1

\* ------------------------------ parseSensorFiles / prepareTrainingStream
FileNames == {"s1", "s2"}           \* names of sensor files
\* the times SensorData.fromTextFile reads from a file: axes that differ in
\* length and axes of one length that differ at an index
TimeAxes == {<<>>, <<0>>, <<0, 1>>, <<0, 2>>}

\* a file whose text SensorData.fromTextFile parses, or one it throws on
SensorFiles ==
  [name : FileNames, parses : BOOLEAN, times : TimeAxes] \
    {f \in [name : FileNames, parses : BOOLEAN, times : TimeAxes] :
       ~f.parses /\ f.times # <<>>}

FileLists ==
  {<<>>} \cup UNION {[1..k -> SensorFiles] : k \in 1..MaxFiles}

\* SensorData.toJSON of one parsed file: its name and one value per time
ToJSON(file) == [fileName |-> file.name, values |-> Len(file.times)]

\* the parser with the last file's times as the axis
parseSensorFilesLastAxis(files) ==
  IF \E i \in 1..Len(files) : ~files[i].parses
    THEN [NoParse EXCEPT !.status = "error"]
    ELSE [status |-> "ok",
          signals |-> [i \in 1..Len(files) |-> ToJSON(files[i])],
          times |-> IF files = <<>> THEN <<>> ELSE files[Len(files)].times,
          hasTimes |-> files # <<>>,
          length |->
            IF files = <<>> THEN 0 ELSE Len(files[Len(files)].times),
          warned |-> \E i \in 2..Len(files) : files[i].times # files[1].times]

\* parseSensorFiles(files): throws on the first file that does not parse;
\* the first file's times are the axis; a later file whose times differ in
\* length or at an index is logged and pushed like any other
parseSensorFiles(files) ==
  IF \E i \in 1..Len(files) : ~files[i].parses
    THEN [NoParse EXCEPT !.status = "error"]
    ELSE [status |-> "ok",
          signals |-> [i \in 1..Len(files) |-> ToJSON(files[i])],
          times |-> IF files = <<>> THEN <<>> ELSE files[1].times,
          hasTimes |-> files # <<>>,
          length |-> IF files = <<>> THEN 0 ELSE Len(files[1].times),
          warned |-> \E i \in 2..Len(files) : files[i].times # files[1].times]

\* a call of parseSensorFiles
ParseSensorFiles ==
  /\ parseOut.status = "none"
  /\ parseOut' = parseSensorFiles(parseIn)
  /\ UNCHANGED <<parseIn, rawIn, yielded, streamRes>>
  /\ UNCHANGED <<svcVars, memVars, voteVars, predVars, besidesParse>>

\* signals of an already processed raw discharge
SignalLists ==
  {<<>>, <<[fileName |-> "s1", values |-> 2]>>}

\* raw discharges: with files, already processed (signals and times, with
\* or without a length of its own), or with neither
StreamRaws ==
  [shape : {"files"}, files : FileLists, signals : {<<>>}, times : {<<>>},
   length : {Undefined}]
  \cup [shape : {"processed"}, files : {<<>>}, signals : SignalLists,
        times : {<<0, 1>>}, length : {Undefined, 0, 1, 2}]
  \cup [shape : {"bare"}, files : {<<>>}, signals : {<<>>}, times : {<<>>},
        length : {Undefined}]

StreamInputs ==
  {<<>>} \cup UNION {[1..k -> StreamRaws] : k \in 1..MaxRaw}

\* what the generator yields for a raw discharge, or that it throws
PreparedOf(d) ==
  IF d.shape = "files"
    THEN IF d.files = <<>>
           THEN [thrown |-> TRUE, signals |-> <<>>, times |-> <<>>,
                 length |-> 0]
           ELSE LET parsed == parseSensorFiles(d.files)
                IN  [thrown |-> parsed.status = "error",
                     signals |-> parsed.signals, times |-> parsed.times,
                     length |-> parsed.length]
    ELSE IF d.shape = "processed"
           THEN [thrown |-> FALSE, signals |-> d.signals, times |-> d.times,
                 length |-> JsOr(d.length, Len(d.times))]
           ELSE [thrown |-> TRUE, signals |-> <<>>, times |-> <<>>,
                 length |-> 0]

\* one next() of the generator: the raw discharge after those yielded
PrepareTrainingStream ==
  /\ streamRes = "running"
  /\ IF Len(yielded) = Len(rawIn)
       THEN /\ streamRes' = "done"
            /\ UNCHANGED yielded
       ELSE LET p == PreparedOf(rawIn[Len(yielded) + 1])
            IN  IF p.thrown
                  THEN /\ streamRes' = "error"
                       /\ UNCHANGED yielded
                  ELSE /\ yielded' =
                            Append(yielded, [signals |-> p.signals,
                                             times |-> p.times,
                                             length |-> p.length])
                       /\ UNCHANGED streamRes
  /\ UNCHANGED <<parseIn, parseOut, rawIn>>
  /\ UNCHANGED <<svcVars, memVars, voteVars, predVars, besidesParse>>

\* the parser is handed a list of files, or the generator a list of raw
\* discharges
ParseInit ==
  /\ SvcInit
  /\ MemIdle
  /\ VoteIdle
  /\ PredIdle
  /\ response = NoResponse
  /\ HealthIdle
  /\ SumIdle
  /\ AutoIdle
  /\ TasksIdle
  /\ RegIdle
  /\ parseOut = NoParse
  /\ yielded = <<>>
  /\ streamRes = "running"
  /\ \/ parseIn \in FileLists /\ rawIn = <<>>
     \/ parseIn = <<>> /\ rawIn \in StreamInputs

ParseNext == ParseSensorFiles \/ PrepareTrainingStream

ParseSpec == ParseInit /\ [][ParseNext]_vars

\* some file after the first parses to times that are not the first's
Inconsistent(files) ==
  \E i \in 2..Len(files) : files[i].times # files[1].times

\* C32: the parser rejects a list of files whose times arrays are not the
\* same for every file: it returns no discharge for it.
C32_RejectsInconsistent ==
  (parseOut.status # "none" /\ Inconsistent(parseIn)) =>
    parseOut.status = "error"

\* what the parser returns for files that all parse
C33_Parsed ==
  parseOut.status = "ok" =>
    /\ Len(parseOut.signals) = Len(parseIn)
    /\ \A i \in 1..Len(parseIn) :
         parseOut.signals[i].fileName = parseIn[i].name
    /\ parseOut.hasTimes = (parseIn # <<>>)
    /\ parseIn # <<>> => /\ parseOut.times = parseIn[1].times
                         /\ parseOut.length = Len(parseIn[1].times)
    /\ parseIn = <<>> => parseOut.length = 0

NewTask == [st |-> "chained", tries |-> 0]

\* variant: the callback is called at once instead of by then()
StartableAtOnce(n, k) == tasks[n][k].st = "chained"

\* model.queue.then(cb): cb is called once the promise before it in the
\* chain is fulfilled; the first task follows Promise.resolve()
Startable(n, k) ==
  /\ tasks[n][k].st = "chained"
  /\ k > 1 => tasks[n][k - 1].st = "ok"

\* one iteration of the loop of sendTrainingBatch chains a task on the
\* queue of every node of the session
ChainTasks ==
  /\ \A n \in Nodes : Len(tasks[n]) < MaxTasks
  /\ tasks' = [n \in Nodes |-> Append(tasks[n], NewTask)]
  /\ UNCHANGED <<svcVars, memVars, voteVars, predVars, besidesTasks>>

\* the callback runs: sendDischargeWithRetry calls postWithRetry, which
\* calls axios
IssuePost(n, k) ==
  /\ Startable(n, k)
  /\ tasks' = [tasks EXCEPT ![n][k] = [st |-> "inflight", tries |-> 1]]
  /\ UNCHANGED <<svcVars, memVars, voteVars, predVars, besidesTasks>>

\* axios settles: the task's promise is fulfilled, or postWithRetry waits
\* to post again after a 'Network Error', or it rethrows
SettlePost(n, k, o) ==
  /\ tasks[n][k].st = "inflight"
  /\ Retryable(o) => tasks[n][k].tries < MaxTries
  /\ tasks' = [tasks EXCEPT ![n][k].st =
                 IF o = "ok" THEN "ok"
                 ELSE IF Retryable(o) THEN "backoff" ELSE "failed"]
  /\ UNCHANGED <<svcVars, memVars, voteVars, predVars, besidesTasks>>

\* delay(500) is over: postWithRetry calls axios again
PostAgain(n, k) ==
  /\ tasks[n][k].st = "backoff"
  /\ tasks' = [tasks EXCEPT ![n][k] =
                 [st |-> "inflight", tries |-> @.tries + 1]]
  /\ UNCHANGED <<svcVars, memVars, voteVars, predVars, besidesTasks>>

\* a promise chained on a rejected one is rejected; its callback is not
\* called
SkipTask(n, k) ==
  /\ tasks[n][k].st = "chained"
  /\ k > 1
  /\ tasks[n][k - 1].st \in {"failed", "skipped"}
  /\ tasks' = [tasks EXCEPT ![n][k].st = "skipped"]
  /\ UNCHANGED <<svcVars, memVars, voteVars, predVars, besidesTasks>>

QueueInit == Init

QueueNext ==
  \/ ChainTasks
  \/ \E n \in Nodes : \E k \in 1..Len(tasks[n]) :
       \/ IssuePost(n, k)
       \/ \E o \in Outcomes : SettlePost(n, k, o)
       \/ PostAgain(n, k)
       \/ SkipTask(n, k)

QueueSpec == QueueInit /\ [][QueueNext]_vars

\* the tasks of node n whose callback was called and whose promise has not
\* settled: posting, or waiting to post again
Running(n) ==
  {k \in 1..Len(tasks[n]) : tasks[n][k].st \in {"inflight", "backoff"}}

\* C34: on a node's queue at most one POST is in flight, and the task for
\* ordinal k+1 makes its first attempt only after the task for ordinal k
\* has completed, with all its retries and the waits between them.
C34_Serial ==
  \A n \in Nodes :
    /\ Cardinality(Running(n)) <= 1
    /\ \A k \in 2..Len(tasks[n]) :
         tasks[n][k].tries > 0 => tasks[n][k - 1].st = "ok"

\* the second task of a node is in flight after the first was posted
\* twice, a third waits, and the other node's first task waits to post again
C34_Witness ==
  /\ Len(tasks["a"]) = 3
  /\ tasks["a"][1] = [st |-> "ok", tries |-> 2]
  /\ tasks["a"][2].st = "inflight"
  /\ tasks["a"][3].st = "chained"
  /\ tasks["b"][1].st = "backoff"

\* ------------------------------------- the registry during a training session
\* a session is stored and no startTrainingSession is under way
SessionActive ==
  /\ trainingSession # 0
  /\ \A c \in Clients : cl[c].pc \notin {"startPost", "startBackoff"}

\* the key that is deleted and added again: the last one, so that the order
\* of the keys stays NodeOrder
LastKey == NodeOrder[Len(NodeOrder)]

\* updateModelUrl with type 'train': 404 for an unknown key, else
\* config.updateModelUrl(modelName, url, 'train')
UpdateModelUrl(n, u) ==
  /\ trainingUrl[n] # NoUrl
  /\ trainingUrl' = [trainingUrl EXCEPT ![n] = u]
  /\ UNCHANGED <<svcVars, memVars, voteVars, predVars, besidesReg>>

\* addModel: config.addModel(name, { url, trainingUrl, healthUrl })
AddModel(n, u, e) ==
  /\ trainingUrl[n] = NoUrl
  /\ trainingUrl' = [trainingUrl EXCEPT ![n] = u]
  /\ models' = IF e THEN models \cup {n} ELSE models
  /\ UNCHANGED <<trainingSession, created, sessVars, queueVars, startAcks,
                 ordLog, cl, ops, fails>>
  /\ UNCHANGED <<memVars, voteVars, predVars, besidesReg>>

\* deleteModel: 404 for an unknown key, else config.removeModel(modelName)
DeleteModel(n) ==
  /\ trainingUrl[n] # NoUrl
  /\ trainingUrl' = [trainingUrl EXCEPT ![n] = NoUrl]
  /\ models' = models \ {n}
  /\ UNCHANGED <<trainingSession, created, sessVars, queueVars, startAcks,
                 ordLog, cl, ops, fails>>
  /\ UNCHANGED <<memVars, voteVars, predVars, besidesReg>>

\* the endpoints of the registry, called while a session is active
RegistryChange ==
  /\ SessionActive
  /\ \/ \E n \in Nodes, e \in BOOLEAN :
          trainingUrl[n] # NoUrl /\ UpdateModelConfig(n, e)
     \/ \E n \in Nodes, u \in Urls : UpdateModelUrl(n, u)
     \/ \E u \in Urls, e \in BOOLEAN : AddModel(LastKey, u, e)
     \/ DeleteModel(LastKey)

RegInit == Init

\* one caller of the service, and the registry changed under its session
RegNext ==
  \/ StartCall("c1", 2)
  \/ BatchCall("c1", 1)
  \/ BatchIter("c1", "d1")
  \/ Settle
  \/ RegistryChange

RegSpec == RegInit /\ [][RegNext]_vars

\* C39: a registry change while a session is active changes nothing of the
\* session, its nodes and their captured URLs; a stored session keeps its
\* nodes and URLs, which are those the registry held when the session was
\* started; every discharge of a session is posted to a node of the session
\* at the URL the session captured for it.
C39_SessionFrame ==
  /\ [](\A s \in Sessions, n \in Nodes :
          targets[s][n] # {} =>
            /\ n \in sessModels[s]
            /\ sessUrl[s][n] \in Urls
            /\ targets[s][n] = {sessUrl[s][n]})
  /\ [][/\ \A s \in 1..created :
             sessModels'[s] = sessModels[s] /\ sessUrl'[s] = sessUrl[s]
        /\ created' # created =>
             \A n \in sessModels'[created'] :
               sessUrl'[created'][n] = trainingUrl[n]
        /\ (trainingUrl' # trainingUrl \/ models' # models) =>
             UNCHANGED <<trainingSession, created, sessVars, queueVars,
                         ordLog, startAcks>>]_vars

\* both nodes answered a discharge of the session at the URL it captured
\* although node a's URL was changed and node b was deleted meanwhile
C39_Witness ==
  \E s \in Sessions :
    /\ trainingSession = s
    /\ sessModels[s] = Nodes
    /\ targets[s]["a"] = {"u1"}
    /\ trainingUrl["a"] = "u2"
    /\ acked[s]["a"] # <<>>
    /\ trainingUrl["b"] = NoUrl
    /\ "b" \notin models
    /\ acked[s]["b"] # <<>>

TypeOK ==
  /\ trainingSession \in 0..MaxOps
  /\ created \in 0..MaxOps
  /\ ops \in 0..MaxOps

====
